---- MODULE Spec2Model ----
(***************************************************************************)
(* Model of the changelog builder (changelogBuilder.ts, the module that    *)
(* exports lastTag and buildChangelog and is imported by src/release.ts).  *)
(*                                                                         *)
(* Text that the code inspects character by character (title, body,        *)
(* committer, usernames, PR tokens) is a sequence of one-character         *)
(* strings.  Text that the code only concatenates is a TLA+ string; Str    *)
(* converts the former into the latter.  The output is kept as the         *)
(* sequence of its "\n"-terminated lines; FinalText joins them.            *)
(***************************************************************************)
EXTENDS Integers, Sequences, FiniteSets, TLC

VARIABLES
    pc,           \* position in buildChangelog: which call comes next
    remoteTags,   \* remoteTagsRaw: the lines `git ls-remote` printed, version-sorted
    lastTag,      \* exported module variable lastTag (NoTag == undefined)
    range,        \* local `range` of getLog
    splitLog,     \* logString.split(lineDelimiter): pieces, each its fields
    log,          \* LogItem[] returned by convertStringToLog
    committers,   \* string[] returned by convertStringToLog
    final,        \* local `final` of buildChangelog, as a sequence of lines
    sections,     \* local `sections` of buildChangelog
    typeIdx,      \* position of the for-loop over Object.keys(titles)
    queries,      \* the execSync calls of getLog in this call, with their outcome
    step,         \* position in release(): the call that comes next
    trail,        \* history: the calls of release() that returned, in order
    changelog,    \* local `changelog` of release(), as a sequence of lines
    currentVer,   \* local `currentVer` of release(): <<year, week, minor>> as text
    now,          \* the clock value incrementVersion read
    newVer,       \* local `newVer` of release()
    attempt,      \* loop variable `attempt` of createGithubRelease
    sleeping,     \* createGithubRelease awaits its timer before the next attempt
    formatted,    \* the files prettier --write has rewritten
    apiCalls,     \* history: the outcome of every octokit.repos.createRelease call
    packageJson,  \* the version field of package.json
    changelogMd,  \* CHANGELOG.md: its text, "" when there is no such file
    gitLocal,     \* the commits and tags created in the local repository
    pushed,       \* the tags pushed to origin
    released      \* the GitHub releases created

releaseVars == <<step, trail, changelog, currentVer, now, newVer, attempt, sleeping,
                 formatted, apiCalls, packageJson, changelogMd, gitLocal, pushed,
                 released>>

vars == <<pc, remoteTags, lastTag, range, splitLog, log, committers,
          final, sections, typeIdx, queries, releaseVars>>

(***************************************************************************)
(* Bounds of the model.                                                    *)
(***************************************************************************)
MaxEntries == 2

(***************************************************************************)
(* Characters and the character classes of the JavaScript regex engine.    *)
(***************************************************************************)
LowerLetters == <<"a","b","c","d","e","f","g","h","i","j","k","l","m",
                  "n","o","p","q","r","s","t","u","v","w","x","y","z">>
UpperLetters == <<"A","B","C","D","E","F","G","H","I","J","K","L","M",
                  "N","O","P","Q","R","S","T","U","V","W","X","Y","Z">>
Digits == {"0","1","2","3","4","5","6","7","8","9"}

Range(s) == {s[i] : i \in 1..Len(s)}

\* \w of the title pattern
WordChars == Range(LowerLetters) \cup Range(UpperLetters) \cup Digits \cup {"_"}
\* \s of the title pattern, and what String.prototype.trim removes: the
\* ASCII white space and line terminators (space, tab, line feed, carriage
\* return, form feed, and U+000B, the vertical tab, as the last member).
\* U+00A0, U+FEFF, U+2028, U+2029 and the other space separators are white
\* space too; they are outside the characters a string of the model holds
SpaceChars == {" ", "\t", "\n", "\r", "\f", ""}
\* what `.` does not match
LineTerminators == {"\n", "\r"}

RECURSIVE Str(_)
Str(s) == IF s = <<>> THEN "" ELSE Head(s) \o Str(Tail(s))

Sub(s, a, b) == IF a > b THEN <<>> ELSE SubSeq(s, a, b)

\* String.prototype.toLowerCase on one character and on a text
LowerChar(c) ==
    IF \E i \in 1..26 : UpperLetters[i] = c
    THEN LowerLetters[CHOOSE i \in 1..26 : UpperLetters[i] = c]
    ELSE c
toLowerCase(s) == [i \in 1..Len(s) |-> LowerChar(s[i])]

\* least and greatest element of a non-empty set of numbers
Min(S) == CHOOSE i \in S : \A j \in S : i <= j
Max(S) == CHOOSE i \in S : \A j \in S : j <= i
MinOrZero(S) == IF S = {} THEN 0 ELSE Min(S)

\* String.prototype.trim
TrimTo(s, keep) == IF keep = {} THEN <<>> ELSE Sub(s, Min(keep), Max(keep))
trim(s) == TrimTo(s, {i \in 1..Len(s) : s[i] \notin SpaceChars})

\* s.indexOf(needle) as a 1-based position, 0 when absent
IndexOf(s, needle) ==
    MinOrZero({i \in 1..(Len(s) - Len(needle) + 1) :
                  Sub(s, i, i + Len(needle) - 1) = needle})

\* String.prototype.includes
includes(s, needle) == IndexOf(s, needle) > 0

\* String.prototype.split with a non-empty separator
RECURSIVE split(_, _)
SplitAt(s, sep, i) ==
    IF i = 0 THEN <<s>>
    ELSE <<Sub(s, 1, i - 1)>> \o split(Sub(s, i + Len(sep), Len(s)), sep)
split(s, sep) == SplitAt(s, sep, IndexOf(s, sep))

\* String.prototype.replace(needle, "") : the first occurrence only
RemoveAt(s, needle, i) ==
    IF i = 0 THEN s ELSE Sub(s, 1, i - 1) \o Sub(s, i + Len(needle), Len(s))
replaceFirst(s, needle) == RemoveAt(s, needle, IndexOf(s, needle))

\* Array.prototype.join of strings
RECURSIVE join(_, _)
join(strs, sep) ==
    IF strs = <<>> THEN ""
    ELSE IF Len(strs) = 1 THEN strs[1]
    ELSE strs[1] \o sep \o join(Tail(strs), sep)

(***************************************************************************)
(* The title pattern of convertStringToLog:                                *)
(*  /^(\w+)(?:\(([^)]+)\))?:\s+(.+?)(?:\s*\((@[^)]+)\))?(?:\s+\((#[^)]+)\))?$/ *)
(* An absent capture (undefined) is the empty sequence: every capture      *)
(* that takes part in a match is non-empty.  The pattern is matched left   *)
(* to right; an operator named ...At or ...With continues the match with   *)
(* the position or the sub-match found so far.                             *)
(***************************************************************************)
\* number of leading characters of s that belong to class
LeadLen(s, class) ==
    MinOrZero({i \in 1..(Len(s) + 1) : i = Len(s) + 1 \/ s[i] \notin class}) - 1

NoMatch == [ok |-> FALSE]

\* `\((X[^)]+)\)` anchored at the start of s, X one of "@", "#":
\* the capture and the text after the closing parenthesis
GroupAt(s, mark, close) ==
    IF Len(s) >= 4 /\ s[1] = "(" /\ s[2] = mark /\ close >= 4
    THEN [ok |-> TRUE, cap |-> Sub(s, 2, close - 1),
          rest |-> Sub(s, close + 1, Len(s))]
    ELSE NoMatch
Group(s, mark) == GroupAt(s, mark, IndexOf(s, <<")">>))

\* (?:\s+\((#[^)]+)\))?$
PrTailWith(s, w, g) ==
    IF s = <<>> THEN [ok |-> TRUE, pr |-> <<>>]
    ELSE IF w >= 1 /\ g.ok /\ g.rest = <<>> THEN [ok |-> TRUE, pr |-> g.cap]
    ELSE NoMatch
PrTailAt(s, w) == PrTailWith(s, w, Group(Sub(s, w + 1, Len(s)), "#"))
PrTail(s) == PrTailAt(s, LeadLen(s, SpaceChars))

\* (?:\s*\((@[^)]+)\))?(?:\s+\((#[^)]+)\))?$
TitleTailWith(g, p, p0) ==
    IF g.ok /\ p.ok THEN [ok |-> TRUE, username |-> g.cap, pr |-> p.pr]
    ELSE IF p0.ok THEN [ok |-> TRUE, username |-> <<>>, pr |-> p0.pr]
    ELSE NoMatch
PrTailAfter(g) == IF g.ok THEN PrTail(g.rest) ELSE NoMatch
TitleTailGroup(s, g) == TitleTailWith(g, PrTailAfter(g), PrTail(s))
TitleTailAt(s, w) == TitleTailGroup(s, Group(Sub(s, w + 1, Len(s)), "@"))
TitleTail(s) == TitleTailAt(s, LeadLen(s, SpaceChars))

\* :\s+(.+?) and the tail, on the text s after the colon: \s+ is greedy (v
\* white-space characters, longest first), .+? is lazy (m characters,
\* shortest first)
TailOK(s, v, m) ==
    /\ \A i \in (v + 1)..(v + m) : s[i] \notin LineTerminators
    /\ TitleTail(Sub(s, v + m + 1, Len(s))).ok
MessageWith(s, v, m, t) ==
    [ok |-> TRUE, message |-> Sub(s, v + 1, v + m),
     username |-> t.username, pr |-> t.pr]
MessageAt(s, v, m) == MessageWith(s, v, m, TitleTail(Sub(s, v + m + 1, Len(s))))
MessageSpaces(s, v) ==
    IF v = 0 THEN NoMatch
    ELSE MessageAt(s, v, Min({m \in 1..(Len(s) - v) : TailOK(s, v, m)}))
MessageAndTail(s) ==
    MessageSpaces(s, Max({0} \cup {v \in 1..LeadLen(s, SpaceChars) :
                                      \E m \in 1..(Len(s) - v) : TailOK(s, v, m)}))

\* title.match(...): [ok, type, scope, message, username, pr]
MatchWith(type, scope, colon, mt) ==
    IF type # <<>> /\ colon # <<>> /\ colon[1] = ":" /\ mt.ok
    THEN [ok |-> TRUE, type |-> type, scope |-> scope,
          message |-> mt.message, username |-> mt.username, pr |-> mt.pr]
    ELSE NoMatch
MatchColon(type, scope, colon) ==
    MatchWith(type, scope, colon, MessageAndTail(Sub(colon, 2, Len(colon))))
\* (?:\(([^)]+)\))? on the text after the type, close the first ")"
MatchScope(type, after, close) ==
    IF Len(after) >= 3 /\ after[1] = "(" /\ close >= 3
    THEN MatchColon(type, Sub(after, 2, close - 1), Sub(after, close + 1, Len(after)))
    ELSE MatchColon(type, <<>>, after)
MatchAt(title, k) ==
    MatchScope(Sub(title, 1, k), Sub(title, k + 1, Len(title)),
               IndexOf(Sub(title, k + 1, Len(title)), <<")">>))
match(title) == MatchAt(title, LeadLen(title, WordChars))

(***************************************************************************)
(* Program constants.                                                      *)
(***************************************************************************)
feat     == <<"f","e","a","t">>
impr     == <<"i","m","p","r">>
fix      == <<"f","i","x">>
docs     == <<"d","o","c","s">>
refactor == <<"r","e","f","a","c","t","o","r">>
perf     == <<"p","e","r","f">>
test     == <<"t","e","s","t">>
build    == <<"b","u","i","l","d">>
ci       == <<"c","i">>
style    == <<"s","t","y","l","e">>
chore    == <<"c","h","o","r","e">>

\* the internal-only marker tested by buildSection and buildFooter
nuf == <<"!","n","u","f">>

\* the keys of titles with the fix section first
titleKeysFixFirst == <<fix, feat, impr>>

\* Object.keys(titles), in insertion order
titleKeys == <<feat, impr, fix>>

\* const titles
titles(type) ==
    IF type = feat THEN "Features"
    ELSE IF type = impr THEN "Improvements"
    ELSE "Bug Fixes"

header == "Thank you to all the contributors who made this release possible!"

footerHeading == "### Nerd stuff"
footerNote ==
    "These changes will not be visible to users, but are included for completeness and to credit contributors."

\* lastTag before any assignment (undefined); the code reads lastTag only
\* for its truthiness, where undefined and "" agree
NoTag == ""

\* what getOwnerAndRepo returns for the origin remote of the checkout
owner == "o"
repo == "r"

(***************************************************************************)
(* Inputs.  A piece of logString.split(lineDelimiter) is the sequence of   *)
(* its fields, i.e. piece.split(logDelimiter); a piece without a field     *)
(* delimiter is a one-field piece.  Fields are as git prints them, before  *)
(* trimming: full hash, short hash, subject, body, committer name.         *)
(***************************************************************************)
pieceEmpty == << <<>> >>
pieceLF    == << <<"\n">> >>
pieceCRLF  == << <<"\r","\n">> >>

eFeatUi ==
    <<<<"a","1">>, <<"a">>,
      <<"f","e","a","t","(","u","i",")",":"," ","a","d","d"," ","(","@","a","l",")"," ","(","#","1","0",")">>,
      <<>>, <<"a","l","\n">>>>
eFixBo ==
    <<<<"b","2">>, <<"b">>,
      <<"f","i","x",":"," ","c","r","a","s","h"," ","(","@","b","o",")">>,
      <<>>, <<"a","l">>>>
eFeatNuf ==
    <<<<"a","1">>, <<"a">>,
      <<"f","e","a","t",":"," ","x">>,
      <<"!","n","u","f">>, <<"b","o","\n">>>>
eImprNuf ==
    <<<<"b","2">>, <<"b">>,
      <<"i","m","p","r","(","d","b",")",":"," ","y"," ","(","@","a","l",")">>,
      <<"z"," ","!","n","u","f">>, <<"a","l","\n">>>>
eFixNuf ==
    <<<<"b","2">>, <<"b">>,
      <<"f","i","x",":"," ","f">>,
      <<"!","n","u","f">>, <<>>>>
eImprAl ==
    <<<<"a","1">>, <<"a">>,
      <<"i","m","p","r",":"," ","i"," ","(","@","a","l",")">>,
      <<>>, <<"a","l">>>>
eDocs ==
    <<<<"a","1">>, <<"a">>,
      <<"d","o","c","s",":"," ","d">>,
      <<>>, <<"a","l">>>>
eChoreX ==
    <<<<"a","1">>, <<"a">>,
      <<"c","h","o","r","e","(","x",")",":"," ","c"," ","(","@","a","l",")">>,
      <<>>, <<"G","i","t","H","u","b","\n">>>>
eChore ==
    <<<<"b","2">>, <<"b">>,
      <<"c","h","o","r","e",":"," ","b","u","m","p">>,
      <<>>, <<>>>>
eStyle ==
    <<<<"b","2">>, <<"b">>,
      <<"s","t","y","l","e",":"," ","s">>,
      <<>>, <<"a","l">>>>
eRefactor ==
    <<<<"b","2">>, <<"b">>,
      <<"r","e","f","a","c","t","o","r","(","c","o","r","e",")",":"," ","r">>,
      <<>>, <<"b","o">>>>
ePerf ==
    <<<<"a","1">>, <<"a">>,
      <<"p","e","r","f",":"," ","p">>,
      <<>>, <<"a","l">>>>
eCi ==
    <<<<"a","1">>, <<"a">>,
      <<"c","i",":"," ","k">>,
      <<>>, <<"g","i","t","h","u","b","-","a","c","t","i","o","n","s">>>>
eTest ==
    <<<<"b","2">>, <<"b">>,
      <<"t","e","s","t",":"," ","t">>,
      <<>>, <<"a","l">>>>
eBuild ==
    <<<<"a","1">>, <<"a">>,
      <<"b","u","i","l","d",":"," ","b"," ","(","#","7",")">>,
      <<>>, <<"a","l">>>>
eRevert ==
    <<<<"b","2">>, <<"b">>,
      <<"r","e","v","e","r","t",":"," ","r"," ","(","@","a","l",","," ","@","b","o",")">>,
      <<>>, <<"b","o">>>>
eFreeForm ==
    <<<<"b","2">>, <<"b">>,
      <<"n","o","t"," ","c","o","n","v","e","n","t","i","o","n","a","l">>,
      <<>>, <<"b","o">>>>
eBot ==
    <<<<"b","2">>, <<"b">>,
      <<"f","i","x",":"," ","z"," ","(","@","d","e","p","e","n","d","a","b","o","t",")">>,
      <<>>, <<"d","e","p","e","n","d","a","b","o","t","[","b","o","t","]">>>>
eFeatTwo ==
    <<<<"a","1">>, <<"a">>,
      <<"f","e","a","t",":"," ","m"," ","(","@","a","l",","," ","@","b","o",")",
        " ","(","#","1",","," ","#","2",")">>,
      <<>>, <<"a","l">>>>
Entries ==
    {eFeatTwo, eFeatUi, eFixBo, eFeatNuf, eImprNuf, eFixNuf, eImprAl, eDocs, eChoreX, eChore, eStyle, eRefactor, ePerf, eCi, eTest, eBuild, eRevert, eFreeForm, eBot}

Pieces == Entries \cup {pieceEmpty, pieceLF, pieceCRLF}

RECURSIVE SeqsUpTo(_, _)
SeqsUpTo(S, n) ==
    IF n = 0 THEN {<<>>}
    ELSE LET shorter == SeqsUpTo(S, n - 1)
         IN  shorter \cup {Append(s, x) : s \in {t \in shorter : Len(t) = n - 1}, x \in S}

\* the blobs git log may print: split never returns an empty array, and the
\* text before the first lineDelimiter is the empty piece
Blobs == {<<pieceEmpty>> \o s : s \in SeqsUpTo(Pieces, MaxEntries)}

\* a line of `git ls-remote --tags --refs`: object name, tab, ref
refsTags == <<"r","e","f","s","/","t","a","g","s","/">>
TagLine(sha, tag) == sha \o <<"\t">> \o refsTags \o tag

\* remoteTagsRaw, the trimmed output split on "\n": the one empty line when
\* the remote has no tag, else one line per tag, lowest version first
TagLists ==
    {<<<<>>>>,
     <<TagLine(<<"c","1">>, <<"v","1">>)>>,
     <<TagLine(<<"c","1">>, <<"v","1">>), TagLine(<<"c","2">>, <<"v","2">>)>>}

(***************************************************************************)
(* convertStringToLog.  A LogItem carries `id`, its position in the        *)
(* returned array: the identity of the JavaScript object, by which the     *)
(* filters of buildSection and buildFooter select it.                      *)
(***************************************************************************)
\* line === "" || line === "\r" || line === "\n"
IsSkippedLine(piece) ==
    Len(piece) = 1 /\ piece[1] \in {<<>>, <<"\r">>, <<"\n">>}

\* title is undefined when the piece has fewer than three fields, and
\* title.match then throws a TypeError
TitleUndefined(piece) == Len(piece) < 3

\* the fields after .map((s) => s.trim()); a missing field is undefined,
\* which `body || ""` and `committer &&` treat like the empty text
Field(piece, n) == IF Len(piece) >= n THEN trim(piece[n]) ELSE <<>>

\* username ? username.split(", ") : []
SplitGroup(cap) == IF cap = <<>> THEN <<>> ELSE split(cap, <<",", " ">>)

github == <<"g","i","t","h","u","b">>

\* the push of the committer with includes("github") on the name as written
PushCommitterCaseSensitive(cs, committer) ==
    IF /\ committer # <<>>
       /\ \A i \in 1..Len(cs) : cs[i] # committer
       /\ ~includes(committer, github)
    THEN Append(cs, committer)
    ELSE cs

\* the committers array after one loop iteration
PushCommitter(cs, committer) ==
    IF /\ committer # <<>>
       /\ \A i \in 1..Len(cs) : cs[i] # committer
       /\ ~includes(toLowerCase(committer), github)
    THEN Append(cs, committer)
    ELSE cs

\* the object pushed onto log
NewLogItem(piece, m, id) ==
    [id        |-> id,
     hashes    |-> <<[short |-> Field(piece, 2), full |-> Field(piece, 1)]>>,
     type      |-> m.type,
     scope     |-> m.scope,
     message   |-> m.message,
     usernames |-> SplitGroup(m.username),
     prs       |-> SplitGroup(m.pr),
     body      |-> Field(piece, 4)]

\* the loop body pushing a record for the entry and one more for its scope
ParseMatchedScopeRecord(acc, piece, m) ==
    IF ~m.ok THEN acc
    ELSE [threw      |-> FALSE,
          committers |-> PushCommitter(acc.committers, Field(piece, 5)),
          log        |-> IF m.scope # <<>>
                         THEN acc.log \o <<NewLogItem(piece, m, Len(acc.log) + 1),
                                           NewLogItem(piece, m, Len(acc.log) + 2)>>
                         ELSE Append(acc.log, NewLogItem(piece, m, Len(acc.log) + 1))]

\* the loop body with the committer collected before the test of the match
ParseMatchedCommitterFirst(acc, piece, m) ==
    [threw      |-> FALSE,
     committers |-> PushCommitter(acc.committers, Field(piece, 5)),
     log        |-> IF m.ok /\ m.type # <<>> /\ m.message # <<>>
                    THEN Append(acc.log, NewLogItem(piece, m, Len(acc.log) + 1))
                    ELSE acc.log]

\* one iteration of the for-loop, on the accumulated result acc, from the
\* match m of the title on
ParseMatched(acc, piece, m) ==
    IF ~m.ok THEN acc
    ELSE [threw      |-> FALSE,
          committers |-> PushCommitter(acc.committers, Field(piece, 5)),
          log        |-> IF m.type # <<>> /\ m.message # <<>>
                         THEN Append(acc.log, NewLogItem(piece, m, Len(acc.log) + 1))
                         ELSE acc.log]

\* one iteration of the for-loop
ParseLine(acc, piece) ==
    IF acc.threw \/ IsSkippedLine(piece) THEN acc
    ELSE IF TitleUndefined(piece) THEN [acc EXCEPT !.threw = TRUE]
    ELSE ParseMatched(acc, piece, match(Field(piece, 3)))

RECURSIVE ParseFrom(_, _)
ParseFrom(acc, pieces) ==
    IF pieces = <<>> THEN acc
    ELSE ParseFrom(ParseLine(acc, Head(pieces)), Tail(pieces))

convertStringToLog(logString) ==
    ParseFrom([threw |-> FALSE, log |-> <<>>, committers |-> <<>>], logString)

(***************************************************************************)
(* Rendering.  A line is [kind, text, src]: text is the line without its   *)
(* "\n", kind names the statement that emitted it, src is the id of the    *)
(* LogItem of a list line and 0 otherwise.                                 *)
(***************************************************************************)
Line(kind, text) == [kind |-> kind, text |-> text, src |-> 0]
Blank == Line("blank", "")

PrLinkOf(prNum) ==
    "[#" \o prNum \o "](https://github.com/" \o owner \o "/" \o repo
         \o "/pull/" \o prNum \o ")"
\* getPrLink without its pr.replace("#", "")
getPrLinkKeepingHash(pr) == PrLinkOf(Str(pr))

getPrLink(pr) == PrLinkOf(Str(replaceFirst(pr, <<"#">>)))

getCommitLink(hash, longHash) ==
    "[" \o Str(hash) \o "](https://github.com/" \o owner \o "/" \o repo
        \o "/commit/" \o Str(longHash) \o ")"

\* the prefix of buildItems without the mergeTypeAndScope branch
ItemPrefixScopeOnly(item, mergeTypeAndScope) ==
    IF item.scope # <<>> THEN "**" \o Str(item.scope) \o ":** " ELSE ""

\* the local `scope` of buildItems: the prefix of the list line
ItemPrefix(item, mergeTypeAndScope) ==
    IF mergeTypeAndScope
    THEN "**" \o Str(item.type)
              \o (IF item.scope # <<>> THEN "(" \o Str(item.scope) \o ")" ELSE "")
              \o ":** "
    ELSE IF item.scope # <<>> THEN "**" \o Str(item.scope) \o ":** " ELSE ""

ItemUsernames(item) ==
    IF Len(item.usernames) > 0
    THEN " (" \o join([i \in 1..Len(item.usernames) |-> Str(item.usernames[i])], ", ") \o ")"
    ELSE ""

ItemPrs(item) ==
    IF Len(item.prs) > 0
    THEN " (" \o join([i \in 1..Len(item.prs) |-> getPrLink(item.prs[i])], ", ") \o ")"
    ELSE ""

ItemHashes(item) ==
    " (" \o join([i \in 1..Len(item.hashes) |->
                    getCommitLink(item.hashes[i].short, item.hashes[i].full)], ", ")
         \o ")"

ItemText(item, mergeTypeAndScope) ==
    "- " \o ItemPrefix(item, mergeTypeAndScope) \o Str(item.message)
         \o ItemUsernames(item) \o ItemPrs(item) \o ItemHashes(item)

\* buildItems walking its items from the last to the first
buildItemsReversed(items, mergeTypeAndScope) ==
    [i \in 1..Len(items) |->
        [kind |-> "item",
         text |-> ItemText(items[Len(items) + 1 - i], mergeTypeAndScope),
         src |-> items[Len(items) + 1 - i].id]]

buildItems(items, mergeTypeAndScope) ==
    [i \in 1..Len(items) |->
        [kind |-> "item", text |-> ItemText(items[i], mergeTypeAndScope),
         src |-> items[i].id]]

\* buildSection's filter without its marker test
SectionItemsIgnoringMarker(type, allItems) ==
    SelectSeq(allItems, LAMBDA item : item.type = type)

\* the filter of buildSection
SectionItems(type, allItems) ==
    SelectSeq(allItems, LAMBDA item : item.type = type /\ ~includes(item.body, nuf))

\* buildSection keeping the first item of each full hash, as the footer does
SectionOfDeduplicated(type, items) ==
    IF Len(items) = 0 THEN <<>>
    ELSE <<Line("heading", "### " \o titles(type)), Blank>>
            \o buildItems(SelectSeq(items, LAMBDA item :
                    \A n \in 1..Len(items) :
                        items[n].hashes[1].full = item.hashes[1].full
                            => items[n].id >= item.id), FALSE)

\* buildSection without its return of "" for an empty selection
SectionOfAlwaysHeaded(type, items) ==
    <<Line("heading", "### " \o titles(type)), Blank>> \o buildItems(items, FALSE)

SectionOf(type, items) ==
    IF Len(items) = 0 THEN <<>>
    ELSE <<Line("heading", "### " \o titles(type)), Blank>> \o buildItems(items, FALSE)
buildSection(type, allItems) == SectionOf(type, SectionItems(type, allItems))

\* the filter of featLogs, imprLogs and fixLogs without its test of the marker
MarkedOrNot(logs, type) ==
    SelectSeq(logs, LAMBDA item : item.type = type)

Marked(logs, type) ==
    SelectSeq(logs, LAMBDA item : item.type = type /\ includes(item.body, nuf))
OfType(logs, type) == SelectSeq(logs, LAMBDA item : item.type = type)

\* allOtherLogs concatenated in the order in which buildFooter declares its
\* filters instead of the order of its array literal
allOtherLogsInDeclarationOrder(logs) ==
    Marked(logs, feat) \o Marked(logs, impr) \o Marked(logs, fix)
        \o OfType(logs, docs) \o OfType(logs, refactor) \o OfType(logs, perf)
        \o OfType(logs, test) \o OfType(logs, build) \o OfType(logs, ci)
        \o OfType(logs, style) \o OfType(logs, chore)

\* allOtherLogs as everything that no user-facing section shows
allOtherLogsCatchAll(logs) ==
    SelectSeq(logs, LAMBDA item :
        ~(item.type \in {feat, impr, fix} /\ ~includes(item.body, nuf)))

\* allOtherLogs of buildFooter
allOtherLogs(logs) ==
    Marked(logs, feat) \o Marked(logs, impr) \o Marked(logs, fix)
        \o OfType(logs, style) \o OfType(logs, docs) \o OfType(logs, refactor)
        \o OfType(logs, perf) \o OfType(logs, ci) \o OfType(logs, test)
        \o OfType(logs, build) \o OfType(logs, chore)

\* self.findIndex((t) => t.hashes[0].full === item.hashes[0].full), 1-based
FindIndex(self, item) ==
    CHOOSE i \in 1..Len(self) :
        /\ self[i].hashes[1].full = item.hashes[1].full
        /\ \A j \in 1..(i - 1) : self[j].hashes[1].full # item.hashes[1].full

\* allOtherLogs.filter((item, index, self) => index === self.findIndex(...)),
\* on the first n elements of self
RECURSIVE UniquePrefix(_, _)
UniquePrefix(self, n) ==
    IF n = 0 THEN <<>>
    ELSE IF n = FindIndex(self, self[n])
         THEN Append(UniquePrefix(self, n - 1), self[n])
         ELSE UniquePrefix(self, n - 1)
\* buildFooter without its filter on the first index of a hash
UniqueKeepingAll(self) == self

Unique(self) == UniquePrefix(self, Len(self))

\* uniqueOtherLogs of buildFooter
uniqueOtherLogs(logs) == Unique(allOtherLogs(logs))

FooterOf(unique) ==
    IF Len(unique) > 0
    THEN <<Line("heading", footerHeading), Blank, Line("note", footerNote), Blank>>
             \o buildItems(unique, TRUE)
    ELSE <<>>
buildFooter(logs) == FooterOf(uniqueOtherLogs(logs))

\* log.map(l => l.usernames.filter(u => u.toLowerCase() !== "dependabot")).flat().length
RECURSIVE contributorCount(_)
contributorCount(items) ==
    IF items = <<>> THEN 0
    ELSE Len(SelectSeq(Head(items).usernames,
                       LAMBDA u : Str(toLowerCase(u)) # "dependabot"))
         + contributorCount(Tail(items))

\* sections.join("")
RECURSIVE joinSectionsUnseparated(_)
joinSectionsUnseparated(secs) ==
    IF secs = <<>> THEN <<>>
    ELSE secs[1] \o joinSectionsUnseparated(Tail(secs))

\* sections.join("\n"): every section ends with "\n", so the separator
\* shows as an empty line between two sections
RECURSIVE joinSections(_)
joinSections(secs) ==
    IF secs = <<>> THEN <<>>
    ELSE IF Len(secs) = 1 THEN secs[1]
    ELSE secs[1] \o <<Blank>> \o joinSections(Tail(secs))

\* the text of a sequence of lines
RECURSIVE FinalText(_)
FinalText(lines) ==
    IF lines = <<>> THEN "" ELSE Head(lines).text \o "\n" \o FinalText(Tail(lines))

(***************************************************************************)
(* buildChangelog, one action per call it makes.                           *)
(***************************************************************************)
\* a version that was not read yet, the clock before it is read
\* no version text: the variable is not assigned yet, or package.json has
\* no version field or one that is not a string (a text always has a part)
NoVersion == <<>>
NoClock == [year |-> 0, days |-> 0, partial |-> FALSE]

\* the variables of release() before its first statement; package.json
\* holds the version pkg and CHANGELOG.md the text md
BeforeRelease(pkg, md) ==
    /\ trail = <<>>
    /\ changelog = <<>>
    /\ currentVer = NoVersion
    /\ now = NoClock
    /\ newVer = NoVersion
    /\ attempt = 1
    /\ sleeping = FALSE
    /\ formatted = {}
    /\ apiCalls = <<>>
    /\ packageJson = pkg
    /\ changelogMd = md
    /\ gitLocal = <<>>
    /\ pushed = {}
    /\ released = {}

\* a process that imports changelogBuilder and does not run release()
NotReleasing ==
    /\ step = "none"
    /\ BeforeRelease(<<<<"2","6">>, <<"6">>, <<"1">>>>, "")


Init ==
    /\ pc = "getLog"
    /\ remoteTags \in TagLists
    /\ lastTag = NoTag
    /\ range = ""
    /\ splitLog = <<>>
    /\ log = <<>>
    /\ committers = <<>>
    /\ final = <<>>
    /\ sections = <<>>
    /\ typeIdx = 1
    /\ queries = <<>>
    /\ NotReleasing

\* one execSync call of getLog and whether it returned
Query(q, ok) == [query |-> q, ok |-> ok]

\* getLog with a catch block that asks for the tags a second time
GetLogTagsFailRetried ==
    /\ pc = "getLog"
    /\ queries' = Append(queries, Query("tags", FALSE))
    /\ pc' = IF Len(queries) < 1 THEN "getLog" ELSE "exit"
    /\ UNCHANGED <<remoteTags, lastTag, range, splitLog, log, committers,
                   final, sections, typeIdx, releaseVars>>

\* getLog, when the tag query fails: process.exit(1)
GetLogTagsFail ==
    /\ pc = "getLog"
    /\ queries' = Append(queries, Query("tags", FALSE))
    /\ pc' = "exit"
    /\ UNCHANGED <<remoteTags, lastTag, range, splitLog, log, committers,
                   final, sections, typeIdx, releaseVars>>

\* remoteTagsRaw.at(0)
LastLineFirst == remoteTags[1]

\* lastLine of getLog: remoteTagsRaw.at(-1)
LastLine == remoteTags[Len(remoteTags)]

\* lastLine.split("refs/tags/")[1].trim()
TagOf(line) == Str(trim(split(line, refsTags)[2]))

\* lastTag and range after the if (lastLine) of getLog
ResolvedTag == IF LastLine # <<>> THEN TagOf(LastLine) ELSE lastTag
ResolvedRange == IF LastLine # <<>> THEN TagOf(LastLine) \o "..HEAD" ELSE "--root"

\* getLog, when the tag query succeeds and the log query fails
GetLogLogFails ==
    /\ pc = "getLog"
    /\ lastTag' = ResolvedTag
    /\ range' = ResolvedRange
    /\ queries' = queries \o <<Query("tags", TRUE), Query("log", FALSE)>>
    /\ pc' = "exit"
    /\ UNCHANGED <<remoteTags, splitLog, log, committers, final, sections, typeIdx,
                   releaseVars>>

\* getLog returning the log, and logString.split(lineDelimiter)
GetLog ==
    /\ pc = "getLog"
    /\ lastTag' = ResolvedTag
    /\ range' = ResolvedRange
    /\ \E blob \in Blobs : splitLog' = blob
    /\ queries' = queries \o <<Query("tags", TRUE), Query("log", TRUE)>>
    /\ pc' = "convert"
    /\ UNCHANGED <<remoteTags, log, committers, final, sections, typeIdx, releaseVars>>

Returned(r) ==
    IF r.threw
    THEN /\ pc' = "threw"
         /\ UNCHANGED <<log, committers>>
    ELSE /\ pc' = "header"
         /\ log' = r.log
         /\ committers' = r.committers

ConvertStringToLog ==
    /\ pc = "convert"
    /\ Returned(convertStringToLog(splitLog))
    /\ UNCHANGED <<remoteTags, lastTag, range, splitLog, final, sections, typeIdx,
                   queries, releaseVars>>

\* if (contributorCount > 1 || committers.length > 1) final += header + "\n\n"
HeaderLines(items, cs) ==
    IF contributorCount(items) > 1 \/ Len(cs) > 1
    THEN <<Line("header", header), Blank>>
    ELSE <<>>

AddHeader ==
    /\ pc = "header"
    /\ final' = HeaderLines(log, committers)
    /\ sections' = <<>>
    /\ typeIdx' = 1
    /\ pc' = "sections"
    /\ UNCHANGED <<remoteTags, lastTag, range, splitLog, log, committers,
                   queries, releaseVars>>

\* if (section) sections.push(section)
PushSection(secs, section) == IF section # <<>> THEN Append(secs, section) ELSE secs

\* one iteration of the loop over Object.keys(titles)
\* getPrLink and getCommitLink call getOwnerAndRepo for every link: when
\* `git remote get-url origin` fails, or its answer names no owner/repo,
\* that is process.exit(1) while the first item is rendered
BuildSectionStep ==
    /\ pc = "sections"
    /\ typeIdx <= Len(titleKeys)
    /\ \/ /\ sections' = PushSection(sections, buildSection(titleKeys[typeIdx], log))
          /\ typeIdx' = typeIdx + 1
          /\ UNCHANGED pc
       \/ /\ SectionItems(titleKeys[typeIdx], log) # <<>>
          /\ pc' = "exit"
          /\ UNCHANGED <<sections, typeIdx>>
    /\ UNCHANGED <<remoteTags, lastTag, range, splitLog, log, committers, final,
                   queries, releaseVars>>

\* final += sections.join("\n")
JoinSections ==
    /\ pc = "sections"
    /\ typeIdx > Len(titleKeys)
    /\ final' = final \o joinSections(sections)
    /\ pc' = "footer"
    /\ UNCHANGED <<remoteTags, lastTag, range, splitLog, log, committers,
                   sections, typeIdx, queries, releaseVars>>

\* if (footer) final += "\n" + footer
WithFooter(text, footer) == IF footer # <<>> THEN text \o <<Blank>> \o footer ELSE text

\* the footer, and the return of buildChangelog
AddFooter ==
    /\ pc = "footer"
    /\ \/ /\ final' = WithFooter(final, buildFooter(log))
          /\ pc' = "done"
       \/ /\ uniqueOtherLogs(log) # <<>>
          /\ pc' = "exit"
          /\ UNCHANGED final
    /\ UNCHANGED <<remoteTags, lastTag, range, splitLog, log, committers,
                   sections, typeIdx, queries, releaseVars>>

Next ==
    \/ GetLogTagsFail
    \/ GetLogLogFails
    \/ GetLog
    \/ ConvertStringToLog
    \/ AddHeader
    \/ BuildSectionStep
    \/ JoinSections
    \/ AddFooter

Spec == Init /\ [][Next]_vars

(***************************************************************************)
(* A process that calls buildChangelog more than once.  The locals of the  *)
(* returned call are gone and the next call declares them anew; the module *)
(* variable lastTag stays; the remote may list other tags by then.         *)
(***************************************************************************)
BuildAgain ==
    /\ pc \in {"done", "threw"}
    /\ remoteTags' \in TagLists
    /\ pc' = "getLog"
    /\ range' = ""
    /\ splitLog' = <<>>
    /\ log' = <<>>
    /\ committers' = <<>>
    /\ final' = <<>>
    /\ sections' = <<>>
    /\ typeIdx' = 1
    /\ queries' = <<>>
    /\ UNCHANGED <<lastTag, releaseVars>>

NextRepeated ==
    \/ Next
    \/ BuildAgain

SpecRepeated == Init /\ [][NextRepeated]_vars

(***************************************************************************)
(* buildChangelog after getLog as one function of the split log: the       *)
(* lines it returns, or "threw" when convertStringToLog throws.            *)
(***************************************************************************)
RECURSIVE SectionsFrom(_, _)
SectionsFrom(k, items) ==
    IF k = 0 THEN <<>>
    ELSE PushSection(SectionsFrom(k - 1, items), buildSection(titleKeys[k], items))

Assemble(r) ==
    IF r.threw THEN "threw"
    ELSE WithFooter(HeaderLines(r.log, r.committers)
                        \o joinSections(SectionsFrom(Len(titleKeys), r.log)),
                    buildFooter(r.log))

ChangelogOf(pieces) == Assemble(convertStringToLog(pieces))

(***************************************************************************)
(* release.ts.  A version is the sequence of the three dot-separated       *)
(* parts of its text, each a sequence of digit characters.                 *)
(***************************************************************************)
DigitChars == <<"0","1","2","3","4","5","6","7","8","9">>
DigitValue(c) == CHOOSE n \in 0..9 : DigitChars[n + 1] = c

\* Number(text) for a text of decimal digits
RECURSIVE NumberOf(_)
NumberOf(digits) ==
    IF digits = <<>> THEN 0
    ELSE 10 * NumberOf(SubSeq(digits, 1, Len(digits) - 1)) + DigitValue(digits[Len(digits)])

\* n.toString() for a non-negative integer
RECURSIVE toString(_)
toString(n) ==
    IF n < 10 THEN <<DigitChars[n + 1]>>
    ELSE Append(toString(n \div 10), DigitChars[(n % 10) + 1])

\* text.slice(-2)
SliceLastTwo(text) == SubSeq(text, Max({1, Len(text) - 1}), Len(text))

\* new Date(year, 0, 1).getDay(), for the years of the model's clock
StartOfYearDay(year) ==
    CASE year = 2026 -> 4
      [] year = 2027 -> 5
      [] year = 2105 -> 4

\* Math.ceil(x / 7) where x is the whole number `whole` plus a fraction of
\* a day that is positive or zero
CeilOfSevenths(whole, partial) ==
    IF partial \/ whole % 7 # 0 THEN (whole \div 7) + 1 ELSE whole \div 7

\* `week` of incrementVersion: the clock is `days` whole days after the
\* start of its year, plus a part of a day when `partial`
WeekOf(clock) ==
    CeilOfSevenths(clock.days + StartOfYearDay(clock.year) + 1, clock.partial)

\* `year` of incrementVersion
YearOf(clock) == SliceLastTwo(toString(clock.year))

\* newMinor of incrementVersion
NewMinor(year, week, prevYear, prevWeek, minor) ==
    IF year # toString(prevYear) \/ week # prevWeek THEN 0 ELSE minor + 1

NewVersionWith(year, week, prev) ==
    <<year, toString(week),
      toString(NewMinor(year, week, NumberOf(prev[1]), NumberOf(prev[2]),
                        NumberOf(prev[3])))>>

incrementVersion(currentVersion, clock) ==
    NewVersionWith(YearOf(clock), WeekOf(clock), currentVersion)

\* the text of a version
VersionText(v) == Str(v[1]) \o "." \o Str(v[2]) \o "." \o Str(v[3])
TagName(v) == "v" \o VersionText(v)

\* versionHeader of updateChangelog
CompareHeader(cur, new) ==
    "## [" \o new \o "](https://github.com/" \o owner \o "/" \o repo
           \o "/compare/v" \o cur \o "...v" \o new \o ")"
versionHeader(tag, cur, new) ==
    IF tag # NoTag THEN CompareHeader(cur, new) ELSE "## " \o new

maxRetries == 5

\* the errors octokit.repos.createRelease may throw
Errors ==
    {[code |-> "ECONNABORTED", status |-> 0],
     [code |-> "", status |-> 500], [code |-> "", status |-> 502],
     [code |-> "", status |-> 503], [code |-> "", status |-> 504],
     [code |-> "", status |-> 401], [code |-> "", status |-> 422]}

isNetworkError(error) ==
    \/ error.code = "ECONNABORTED"
    \/ error.status = 500
    \/ error.status = 502
    \/ error.status = 503
    \/ error.status = 504

\* the retry test without isNetworkError
ShouldRetryAnyError(k, error) == k < maxRetries

\* if (attempt < maxRetries && isNetworkError)
ShouldRetry(k, error) == k < maxRetries /\ isNetworkError(error)

\* `${versionHeader}\n\n${newContent}\n` + existingContent, newContent
\* being the lines of the changelog
finalContent(versionHead, newContent, existingContent) ==
    versionHead \o "\n\n" \o FinalText(newContent) \o "\n" \o existingContent

\* package.json and CHANGELOG.md as release() may find them: the version,
\* and the text of earlier releases ("" when the file does not exist)
ReleaseFiles ==
    {[pkg |-> <<<<"2","6">>, <<"6">>, <<"1">>>>, md |-> "## 26.6.1\n\n\n"],
     [pkg |-> <<<<"2","6">>, <<"5">>, <<"0">>>>, md |-> ""],
     [pkg |-> NoVersion, md |-> ""]}
ReleaseVersions == {f.pkg : f \in ReleaseFiles}
ReleaseClocks == {[year |-> 2026, days |-> 33, partial |-> TRUE]}

\* the logs git may print during release()
ReleaseBlobs ==
    {<<pieceEmpty>>, <<pieceEmpty, eFeatUi, eFixBo>>, <<pieceEmpty, eChore>>,
     <<pieceEmpty, pieceLF>>, <<pieceEmpty, pieceCRLF>>}

\* the same for incrementVersion on its own
YearTexts == {<<"2","6">>, <<"2","5">>, <<"0","5">>, <<"5">>}
WeekTexts == {<<"1">>, <<"6">>, <<"0","6">>, <<"5","3">>}
MinorTexts == {<<"0">>, <<"3">>, <<"9">>}
Versions ==
    {<<y, w, n>> : y \in YearTexts, w \in WeekTexts, n \in MinorTexts} \cup {NoVersion}
Clocks ==
    [year : {2026, 2105}, days : {0, 2, 3, 33, 364}, partial : BOOLEAN]

buildVars == <<pc, range, splitLog, log, committers, final, sections, typeIdx,
               queries>>

\* a call of release() that returned
Passed(name) == trail' = Append(trail, name)

\* process.exit(1)
Exit == step' = "exited" /\ UNCHANGED trail

\* a check of release() that changes nothing: it passes, or it exits
Check(name, next) ==
    /\ step = name
    /\ \/ Passed(name) /\ step' = next
       \/ Exit
    /\ UNCHANGED <<buildVars, remoteTags, lastTag, changelog, currentVer, now, newVer,
                   attempt, sleeping, formatted, apiCalls, packageJson, changelogMd,
                   gitLocal, pushed, released>>

ValidateEnv == Check("validateEnv", "validateToken")
ValidateToken == Check("validateToken", "findOriginDefaultBranch")
FindOriginDefaultBranch == Check("findOriginDefaultBranch", "checkBranchSync")

\* the tags of origin, as `git ls-remote --tags` lists them
TagLines == SelectSeq(remoteTags, LAMBDA line : line # <<>>)
OriginTags ==
    [k \in 1..Len(TagLines) |-> [kind |-> "tag", text |-> TagOf(TagLines[k])]]

\* `git fetch origin` creates in the clone the tags of origin it lacks
Fetched(missing) == SelectSeq(OriginTags, LAMBDA ref : ref \in missing)

\* checkBranchSync: `git branch --show-current` runs before the try block,
\* so its failure is an uncaught error; another branch and a failed fetch
\* are process.exit(1); after the fetch the call returns, or exits when
\* the local branch differs from origin's
CheckBranchSync ==
    /\ step = "checkBranchSync"
    /\ \/ step' = "crashed" /\ UNCHANGED <<trail, gitLocal>>
       \/ Exit /\ UNCHANGED gitLocal
       \/ /\ \E missing \in SUBSET Range(OriginTags) :
                gitLocal' = gitLocal \o Fetched(missing)
          /\ \/ Passed("checkBranchSync") /\ step' = "checkUncommittedChanges"
             \/ Exit
    /\ UNCHANGED <<buildVars, remoteTags, lastTag, changelog, currentVer, now, newVer,
                   attempt, sleeping, formatted, apiCalls, packageJson, changelogMd,
                   pushed, released>>

CheckUncommittedChanges == Check("checkUncommittedChanges", "generateChangelog")

\* generateChangelog once buildChangelog has parsed the log into r
Generated(r) ==
    IF r.threw
    THEN step' = "crashed" /\ UNCHANGED <<trail, changelog>>
    ELSE /\ changelog' = Assemble(r)
         /\ Passed("generateChangelog")
         /\ step' = "promptChangelog"

\* generateChangelog: buildChangelog as one step.  It exits when the tag
\* query fails, and with the tag resolved when the log query or the origin
\* query of a link fails
GenerateChangelog ==
    /\ step = "generateChangelog"
    /\ \/ Exit /\ UNCHANGED <<lastTag, changelog>>
       \/ Exit /\ lastTag' = ResolvedTag /\ UNCHANGED changelog
       \/ /\ lastTag' = ResolvedTag
          /\ \E blob \in ReleaseBlobs : Generated(convertStringToLog(blob))
    /\ UNCHANGED <<buildVars, remoteTags, currentVer, now, newVer, attempt, sleeping,
                   formatted, apiCalls, packageJson, changelogMd, gitLocal, pushed,
                   released>>

\* readlineSync.keyInYN: yes goes on, anything else is process.exit(1)
Prompt(name, next) ==
    /\ step = name
    /\ \/ Passed(name) /\ step' = next
       \/ Exit
    /\ UNCHANGED <<buildVars, remoteTags, lastTag, changelog, currentVer, now, newVer,
                   attempt, sleeping, formatted, apiCalls, packageJson, changelogMd,
                   gitLocal, pushed, released>>

\* a declined prompt that goes on all the same
PromptIgnoringAnswer(name, next) ==
    /\ step = name
    /\ \/ Passed(name) /\ step' = next
       \/ step' = next /\ UNCHANGED trail
    /\ UNCHANGED <<buildVars, remoteTags, lastTag, changelog, currentVer, now, newVer,
                   attempt, sleeping, formatted, apiCalls, packageJson, changelogMd,
                   gitLocal, pushed, released>>

PromptAnswer(name, next) == Prompt(name, next)

PromptChangelog == PromptAnswer("promptChangelog", "getCurrentVersion")

GetCurrentVersion ==
    /\ step = "getCurrentVersion"
    /\ \/ /\ currentVer' = packageJson
          /\ Passed("getCurrentVersion")
          /\ step' = "incrementVersion"
       \/ Exit /\ UNCHANGED currentVer
    /\ UNCHANGED <<buildVars, remoteTags, lastTag, changelog, now, newVer, attempt,
                   sleeping, formatted, apiCalls, packageJson, changelogMd, gitLocal,
                   pushed, released>>

\* incrementVersion; currentVersion.split throws when the version is no
\* text, and the catch block is process.exit(1)
IncrementVersionAt(clocks) ==
    /\ step = "incrementVersion"
    /\ \/ /\ currentVer # NoVersion
          /\ \E clock \in clocks :
                /\ now' = clock
                /\ newVer' = incrementVersion(currentVer, clock)
          /\ Passed("incrementVersion")
          /\ step' = "promptRelease"
       \/ /\ currentVer = NoVersion
          /\ Exit
          /\ UNCHANGED <<now, newVer>>
    /\ UNCHANGED <<buildVars, remoteTags, lastTag, changelog, currentVer, attempt,
                   sleeping, formatted, apiCalls, packageJson, changelogMd, gitLocal,
                   pushed, released>>

IncrementVersion == IncrementVersionAt(ReleaseClocks)

PromptRelease == PromptAnswer("promptRelease", "updatePackage")

\* updatePackage; it exits with the file as it was when reading or opening
\* it fails, and with the file truncated or cut, its version text gone,
\* when writeFileSync fails after opening it
UpdatePackage ==
    /\ step = "updatePackage"
    /\ \/ /\ packageJson' = newVer
          /\ Passed("updatePackage")
          /\ step' = "updateChangelog"
       \/ Exit /\ UNCHANGED packageJson
       \/ Exit /\ packageJson' = NoVersion
    /\ UNCHANGED <<buildVars, remoteTags, lastTag, changelog, currentVer, now, newVer,
                   attempt, sleeping, formatted, apiCalls, changelogMd, gitLocal, pushed,
                   released>>

\* CHANGELOG.md when writeFileSync, having truncated it, stops after the
\* first n characters of the text it was given
CutAt(text, n) == SubSeq(text, 1, n)

\* fs.writeFileSync(changelogPath, finalContent): the whole text and the
\* step returns; or an error and process.exit(1), with the file as it was
\* when getOwnerAndRepo exits or reading or opening it fails, and with any
\* number of characters of the new text in it, the text it held gone, when
\* the write fails after the file was opened
WriteChangelog(text) ==
    \/ /\ changelogMd' = text
       /\ Passed("updateChangelog")
       /\ step' = "createCommitAndTag"
    \/ Exit /\ UNCHANGED changelogMd
    \/ Exit /\ \E n \in 0..Len(text) : changelogMd' = CutAt(text, n)

UpdateChangelog ==
    /\ step = "updateChangelog"
    /\ WriteChangelog(finalContent(versionHeader(lastTag, VersionText(currentVer),
                                                 VersionText(newVer)),
                                   changelog, changelogMd))
    /\ UNCHANGED <<buildVars, remoteTags, lastTag, changelog, currentVer, now, newVer,
                   attempt, sleeping, formatted, apiCalls, packageJson, gitLocal, pushed,
                   released>>

Commit(v) == [kind |-> "commit", text |-> "chore: release " \o TagName(v)]
Tag(v) == [kind |-> "tag", text |-> TagName(v)]

\* the files `npx prettier --write package.json CHANGELOG.md` rewrites; what
\* it changes in them is layout, which the model does not hold
Files == {"package.json", "CHANGELOG.md"}

\* the refs of version v that `git push origin <branch> --tags` sends
Refs(v) == {Commit(v), Tag(v)}

\* --tags sends every local tag: the tags the clone may hold that origin
\* has not, or has on another commit
OtherLocalTags == {[kind |-> "tag", text |-> "old"]}

\* what origin may receive from the push for version v: each ref is
\* accepted or refused on its own, and git fails when one is refused
Sendable(v) == SUBSET (Refs(v) \cup OtherLocalTags)

\* createCommitAndTag whose catch block goes on to the release
CreateCommitAndTagGoingOn ==
    /\ step = "createCommitAndTag"
    /\ formatted' = Files
    /\ gitLocal' = gitLocal \o <<Commit(newVer), Tag(newVer)>>
    /\ \/ /\ \E sent \in Sendable(newVer) :
                Refs(newVer) \subseteq sent /\ pushed' = pushed \cup sent
          /\ Passed("createCommitAndTag")
          /\ step' = "getOwnerAndRepo"
       \/ /\ \E sent \in Sendable(newVer) : pushed' = pushed \cup sent
          /\ step' = "getOwnerAndRepo"
          /\ UNCHANGED trail
    /\ UNCHANGED <<buildVars, remoteTags, lastTag, changelog, currentVer, now, newVer,
                   attempt, sleeping, apiCalls, packageJson, changelogMd, released>>

\* createCommitAndTag: prettier, git add, commit, tag, push in one try
\* block; a failure of any command is process.exit(1) with the earlier
\* commands done: at prettier, at add or commit, at tag, at push
CreateCommitAndTag ==
    /\ step = "createCommitAndTag"
    /\ \/ /\ formatted' = Files
          /\ gitLocal' = gitLocal \o <<Commit(newVer), Tag(newVer)>>
          /\ \E sent \in Sendable(newVer) :
                Refs(newVer) \subseteq sent /\ pushed' = pushed \cup sent
          /\ Passed("createCommitAndTag")
          /\ step' = "getOwnerAndRepo"
       \/ /\ Exit
          /\ \E written \in SUBSET Files : written # Files /\ formatted' = written
          /\ UNCHANGED <<gitLocal, pushed>>
       \/ /\ Exit
          /\ formatted' = Files
          /\ UNCHANGED <<gitLocal, pushed>>
       \/ /\ Exit
          /\ formatted' = Files
          /\ gitLocal' = Append(gitLocal, Commit(newVer))
          /\ UNCHANGED pushed
       \/ /\ Exit
          /\ formatted' = Files
          /\ gitLocal' = gitLocal \o <<Commit(newVer), Tag(newVer)>>
          /\ \E sent \in Sendable(newVer) : pushed' = pushed \cup sent
    /\ UNCHANGED <<buildVars, remoteTags, lastTag, changelog, currentVer, now, newVer,
                   attempt, sleeping, apiCalls, packageJson, changelogMd, released>>

GetOwnerAndRepo == Check("getOwnerAndRepo", "createGithubRelease")

\* the answers of octokit.repos.createRelease, as apiCalls records them
Created == [ok |-> TRUE, code |-> "", status |-> 201]
Failed(error) == [ok |-> FALSE, code |-> error.code, status |-> error.status]

\* the catch block of createGithubRelease for the error of attempt k: it
\* starts the timer of the retry, or exits
Caught(k, error) ==
    /\ apiCalls' = Append(apiCalls, Failed(error))
    /\ IF ShouldRetry(k, error)
       THEN sleeping' = TRUE /\ UNCHANGED <<step, trail>>
       ELSE Exit /\ UNCHANGED sleeping

\* one call of octokit.repos.createRelease in the for-loop of
\* createGithubRelease, up to its return, its exit or its await of the timer
CreateGithubRelease ==
    /\ step = "createGithubRelease"
    /\ ~sleeping
    /\ attempt <= maxRetries
    /\ \/ /\ apiCalls' = Append(apiCalls, Created)
          /\ released' = released \cup {TagName(newVer)}
          /\ Passed("createGithubRelease")
          /\ step' = "finished"
          /\ UNCHANGED sleeping
       \/ /\ \E error \in Errors : Caught(attempt, error)
          /\ UNCHANGED released
    /\ UNCHANGED <<buildVars, remoteTags, lastTag, changelog, currentVer, now, newVer,
                   attempt, formatted, packageJson, changelogMd, gitLocal, pushed>>

\* the timer of 1000 * attempt ms fires: `continue`, and attempt++
RetryAfterSleep ==
    /\ step = "createGithubRelease"
    /\ sleeping
    /\ sleeping' = FALSE
    /\ attempt' = attempt + 1
    /\ UNCHANGED <<buildVars, remoteTags, lastTag, step, trail, changelog, currentVer,
                   now, newVer, formatted, apiCalls, packageJson, changelogMd, gitLocal,
                   pushed, released>>

InitRelease ==
    /\ pc = "getLog"
    /\ remoteTags \in TagLists
    /\ lastTag = NoTag
    /\ range = ""
    /\ splitLog = <<>>
    /\ log = <<>>
    /\ committers = <<>>
    /\ final = <<>>
    /\ sections = <<>>
    /\ typeIdx = 1
    /\ queries = <<>>
    /\ step = "validateEnv"
    /\ \E f \in ReleaseFiles : BeforeRelease(f.pkg, f.md)

NextRelease ==
    \/ ValidateEnv
    \/ ValidateToken
    \/ FindOriginDefaultBranch
    \/ CheckBranchSync
    \/ CheckUncommittedChanges
    \/ GenerateChangelog
    \/ PromptChangelog
    \/ GetCurrentVersion
    \/ IncrementVersion
    \/ PromptRelease
    \/ UpdatePackage
    \/ UpdateChangelog
    \/ CreateCommitAndTag
    \/ GetOwnerAndRepo
    \/ CreateGithubRelease
    \/ RetryAfterSleep

SpecRelease == InitRelease /\ [][NextRelease]_vars

\* release() with every call returning in the end: the commands it runs
\* and the API it calls answer or fail, and the retry sleep is finite
SpecReleaseFair == SpecRelease /\ WF_vars(NextRelease)

(***************************************************************************)
(* getCurrentVersion and incrementVersion on their own, for every version  *)
(* package.json may hold and every clock value of the model.               *)
(***************************************************************************)
ChecksPassed ==
    <<"validateEnv", "validateToken", "findOriginDefaultBranch", "checkBranchSync",
      "checkUncommittedChanges", "generateChangelog", "promptChangelog">>

InitVersion ==
    /\ pc = "getLog"
    /\ remoteTags = <<<<>>>>
    /\ lastTag = NoTag
    /\ range = ""
    /\ splitLog = <<>>
    /\ log = <<>>
    /\ committers = <<>>
    /\ final = <<>>
    /\ sections = <<>>
    /\ typeIdx = 1
    /\ queries = <<>>
    /\ step = "getCurrentVersion"
    /\ trail = ChecksPassed
    /\ changelog = <<>>
    /\ currentVer = NoVersion
    /\ now = NoClock
    /\ newVer = NoVersion
    /\ attempt = 1
    /\ sleeping = FALSE
    /\ formatted = {}
    /\ apiCalls = <<>>
    /\ packageJson \in Versions
    /\ changelogMd = ""
    /\ gitLocal = <<>>
    /\ pushed = {}
    /\ released = {}

IncrementVersionAnyClock == IncrementVersionAt(Clocks)

NextVersion ==
    \/ GetCurrentVersion
    \/ IncrementVersionAnyClock

SpecVersion == InitVersion /\ [][NextVersion]_vars

(***************************************************************************)
(* Vocabulary of the properties.                                           *)
(***************************************************************************)
Done == pc = "done"

UserTypes == {feat, impr, fix}
InternalTypes == {style, docs, refactor, perf, ci, test, build, chore}
KnownTypes == UserTypes \cup InternalTypes

HasMarker(item) == includes(item.body, nuf)
FooterEligible(item) ==
    \/ item.type \in UserTypes /\ HasMarker(item)
    \/ item.type \in InternalTypes

LogItems == Range(log)
FullHash(item) == item.hashes[1].full

\* the list lines of the output, and the block each belongs to: the block
\* of a line is named by the last heading above it
ItemLines == {i \in 1..Len(final) : final[i].kind = "item"}
HeadingOf(i) == Max({0} \cup {j \in 1..i : final[j].kind = "heading"})
FooterLines ==
    {i \in ItemLines : HeadingOf(i) > 0 /\ final[HeadingOf(i)].text = "### Nerd stuff"}
SectionLines == ItemLines \ FooterLines
ItemOf(i) == log[final[i].src]

InFooter(item) == \E i \in FooterLines : final[i].src = item.id
InSomeSection(item) == \E i \in SectionLines : final[i].src = item.id
\* another entry holds the footer line of item's commit
DroppedAsDuplicate(item) ==
    \E i \in FooterLines : final[i].src # item.id /\ FullHash(ItemOf(i)) = FullHash(item)

HeaderPresent == Len(final) >= 1 /\ final[1].text = header

(***************************************************************************)
(* C1  Marker law, as claimed: every entry of type feat, impr or fix       *)
(* whose body contains "!nuf" has a list line in the footer block and no   *)
(* list line in a user-facing section.                                     *)
(***************************************************************************)
C1_MarkerLaw ==
    Done => \A item \in LogItems :
                item.type \in UserTypes /\ HasMarker(item)
                    => InFooter(item) /\ ~InSomeSection(item)

(***************************************************************************)
(* C1  Marker law, amended: such an entry has no list line in a            *)
(* user-facing section, and it has a list line in the footer block unless  *)
(* the footer line of its full hash belongs to another entry, which then   *)
(* stands before it in the footer's concatenation order.                   *)
(***************************************************************************)
C1_MarkerLawUnlessDuplicate ==
    Done => \A item \in LogItems :
                item.type \in UserTypes /\ HasMarker(item)
                    => /\ ~InSomeSection(item)
                       /\ InFooter(item) \/ DroppedAsDuplicate(item)
                       /\ ~(InFooter(item) /\ DroppedAsDuplicate(item))

\* a marked entry is in the footer and another marked entry was dropped
\* as the duplicate of a footer line
C1_Witness ==
    /\ Done
    /\ \E item \in LogItems :
            item.type \in UserTypes /\ HasMarker(item) /\ InFooter(item)
    /\ \E item \in LogItems :
            item.type \in UserTypes /\ HasMarker(item) /\ DroppedAsDuplicate(item)

(***************************************************************************)
(* C2  Threshold law, as claimed: the thank-you header is emitted exactly  *)
(* when the entries carry two or more distinct non-bot usernames or the    *)
(* committers are two or more distinct non-bot identities.                 *)
(***************************************************************************)
\* a username annotation without its "@", in lower case
Handle(u) == toLowerCase(IF u # <<>> /\ u[1] = "@" THEN Tail(u) ELSE u)
DistinctNonBotUsernames ==
    {Handle(u) : u \in UNION {Range(item.usernames) : item \in LogItems}}
        \ {<<"d","e","p","e","n","d","a","b","o","t">>}
DistinctCommitters == Range(committers)

C2_ThresholdLaw ==
    pc \in {"sections", "footer", "done"} =>
        (HeaderPresent <=> \/ Cardinality(DistinctNonBotUsernames) >= 2
                           \/ Cardinality(DistinctCommitters) >= 2)

(***************************************************************************)
(* C3  Footer uniqueness: no two list lines of the footer refer to the     *)
(* same full hash, and the footer-eligible entries of one full hash have   *)
(* exactly one footer line between them.                                   *)
(***************************************************************************)
C3_FooterUniqueness ==
    Done => /\ \A i, j \in FooterLines :
                  FullHash(ItemOf(i)) = FullHash(ItemOf(j)) => i = j
            /\ \A item \in LogItems :
                  FooterEligible(item) =>
                      Cardinality({i \in FooterLines :
                                      FullHash(ItemOf(i)) = FullHash(item)}) = 1

\* two footer-eligible entries share a full hash
C3_Witness ==
    /\ Done
    /\ \E a, b \in LogItems :
          /\ a.id # b.id
          /\ FooterEligible(a) /\ FooterEligible(b)
          /\ FullHash(a) = FullHash(b)

(***************************************************************************)
(* C4  Footer survivor: the footer line of a full hash belongs to the      *)
(* footer-eligible entry of that hash that is first in the concatenation   *)
(* order feat, impr, fix (marked), style, docs, refactor, perf, ci, test,  *)
(* build, chore, input order within a group; the line shows that entry     *)
(* alone, with its single hash pair.                                       *)
(***************************************************************************)
GroupRank(type) ==
    CASE type = feat -> 1 [] type = impr -> 2 [] type = fix -> 3
      [] type = style -> 4 [] type = docs -> 5 [] type = refactor -> 6
      [] type = perf -> 7 [] type = ci -> 8 [] type = test -> 9
      [] type = build -> 10 [] type = chore -> 11
ComesBefore(a, b) ==
    \/ GroupRank(a.type) < GroupRank(b.type)
    \/ GroupRank(a.type) = GroupRank(b.type) /\ a.id <= b.id

C4_FooterSurvivor ==
    Done => \A i \in FooterLines :
                /\ FooterEligible(ItemOf(i))
                /\ \A other \in LogItems :
                      FooterEligible(other) /\ FullHash(other) = FullHash(ItemOf(i))
                          => ComesBefore(ItemOf(i), other)
                /\ Len(ItemOf(i).hashes) = 1
                /\ final[i].text = ItemText(ItemOf(i), TRUE)

\* the survivor of a hash came later in the input than a duplicate it beat
C4_Witness ==
    /\ Done
    /\ \E i \in FooterLines : \E other \in LogItems :
          /\ FooterEligible(other)
          /\ FullHash(other) = FullHash(ItemOf(i))
          /\ other.id < ItemOf(i).id
          /\ other.type # ItemOf(i).type

(***************************************************************************)
(* C5  Type-vocabulary law: an entry whose type is none of the eleven      *)
(* recognized types has no list line, neither in a user-facing section     *)
(* nor in the footer.                                                      *)
(***************************************************************************)
C5_TypeVocabularyLaw ==
    Done => \A item \in LogItems :
                item.type \notin KnownTypes
                    => \A i \in ItemLines : final[i].src # item.id

\* an entry of an unknown type was parsed next to one that is rendered
C5_Witness ==
    /\ Done
    /\ \E item \in LogItems : item.type \notin KnownTypes
    /\ ItemLines # {}

(***************************************************************************)
(* C6  As claimed: an entry whose type is outside the recognized           *)
(* vocabulary produces no record, and the output is the output for the     *)
(* same input without that entry.                                          *)
(***************************************************************************)
HasTitle(piece) == ~IsSkippedLine(piece) /\ ~TitleUndefined(piece)
Matches(piece) == HasTitle(piece) /\ match(Field(piece, 3)).ok
HasUnknownType(piece) ==
    Matches(piece) /\ match(Field(piece, 3)).type \notin KnownTypes
WithoutUnknownTypes(pieces) ==
    SelectSeq(pieces, LAMBDA piece : ~HasUnknownType(piece))

C6_UnknownTypeIsNoRecord ==
    Done => /\ \A item \in LogItems : item.type \in KnownTypes
            /\ final = ChangelogOf(WithoutUnknownTypes(splitLog))

(***************************************************************************)
(* C7  Empty-input law, as claimed: when no entry of the blob matches the  *)
(* title grammar, buildChangelog raises no error and returns the empty     *)
(* string.                                                                 *)
(***************************************************************************)
HasReturned == pc \in {"threw", "done"}
NoEntryMatches == \A k \in 1..Len(splitLog) : ~Matches(splitLog[k])

C7_EmptyInputLaw ==
    HasReturned /\ NoEntryMatches => pc = "done" /\ FinalText(final) = ""

(***************************************************************************)
(* C8  Heading text, as claimed: the sections of feat, impr and fix are    *)
(* headed "### Features", "### Improvements" and "### Fixes", the footer   *)
(* "### Nerd stuff", and there is no other heading.                        *)
(***************************************************************************)
HeadingLines == {i \in 1..Len(final) : final[i].kind = "heading"}
\* the heading above every list line is the one that names its block
HeadingsAre(featTitle, imprTitle, fixTitle, footerTitle) ==
    /\ \A i \in ItemLines :
          /\ HeadingOf(i) > 0
          /\ final[HeadingOf(i)].text =
                IF FooterEligible(ItemOf(i)) THEN footerTitle
                ELSE IF ItemOf(i).type = feat THEN featTitle
                ELSE IF ItemOf(i).type = impr THEN imprTitle
                ELSE fixTitle
    /\ \A h \in HeadingLines :
          final[h].text \in {featTitle, imprTitle, fixTitle, footerTitle}

C8_HeadingTextFixes ==
    Done => HeadingsAre("### Features", "### Improvements", "### Fixes",
                        "### Nerd stuff")

\* an output with a fix section and a footer
C8_FixSectionReached ==
    /\ Done
    /\ \E i \in ItemLines : ItemOf(i).type = fix /\ ~FooterEligible(ItemOf(i))
    /\ \E i \in ItemLines : FooterEligible(ItemOf(i))

(***************************************************************************)
(* C9  Fixed block order: the thank-you header, when present, is the       *)
(* first line; the list lines of the feat section precede those of the     *)
(* impr section, these those of the fix section, these those of the        *)
(* footer; every block has one heading, whatever the input order.          *)
(***************************************************************************)
BlockRank(i) ==
    IF i \in FooterLines THEN 4
    ELSE IF ItemOf(i).type = feat THEN 1
    ELSE IF ItemOf(i).type = impr THEN 2
    ELSE 3

C9_FixedBlockOrder ==
    Done => /\ \A i \in 1..Len(final) : final[i].text = header => i = 1
            /\ \A i, j \in ItemLines :
                  /\ i < j => BlockRank(i) <= BlockRank(j)
                  /\ BlockRank(i) = BlockRank(j) <=> HeadingOf(i) = HeadingOf(j)
            /\ \A h \in HeadingLines : \E i \in ItemLines : HeadingOf(i) = h

\* header and two blocks whose entries came in the opposite order
C9_Witness ==
    /\ Done
    /\ HeaderPresent
    /\ \E i, j \in ItemLines :
          i < j /\ BlockRank(i) < BlockRank(j) /\ final[i].src > final[j].src

(***************************************************************************)
(* C10  Internal types go only to the footer: an entry of type style,      *)
(* docs, refactor, perf, ci, test, build or chore has no list line in a    *)
(* user-facing section; unless dropped as a same-hash duplicate it has a   *)
(* footer line, which starts "- **type(scope):** " when the entry has a    *)
(* scope and "- **type:** " when it has none.                              *)
(***************************************************************************)
MergedPrefix(item) ==
    IF item.scope # <<>>
    THEN "**" \o Str(item.type) \o "(" \o Str(item.scope) \o "):** "
    ELSE "**" \o Str(item.type) \o ":** "
\* the list line after its prefix
ItemRest(item) ==
    Str(item.message) \o ItemUsernames(item) \o ItemPrs(item) \o ItemHashes(item)

C10_InternalTypesInFooter ==
    Done => \A item \in LogItems :
                item.type \in InternalTypes
                    => /\ ~InSomeSection(item)
                       /\ InFooter(item) \/ DroppedAsDuplicate(item)
                       /\ \A i \in FooterLines :
                             final[i].src = item.id
                                 => final[i].text =
                                        "- " \o MergedPrefix(item) \o ItemRest(item)

\* the footer shows an internal entry with a scope and one without
C10_Witness ==
    /\ Done
    /\ \E a, b \in LogItems :
          /\ a.type \in InternalTypes /\ b.type \in InternalTypes
          /\ a.scope # <<>> /\ b.scope = <<>>
          /\ InFooter(a) /\ InFooter(b)

(***************************************************************************)
(* C11  Collaborator failure is fatal and not retried: a call issues the   *)
(* tag query at most once and the log query at most once, the log query    *)
(* only after the tag query returned; a query that failed is the last one  *)
(* of the call, the process has exited, and nothing of a changelog was     *)
(* built; once exited the process takes no further step.                   *)
(***************************************************************************)
QueriesOf(q) == {i \in 1..Len(queries) : queries[i].query = q}

NoRetryNoPartialResult ==
    /\ Cardinality(QueriesOf("tags")) <= 1
    /\ Cardinality(QueriesOf("log")) <= 1
    /\ \A i \in QueriesOf("log") :
          \E j \in 1..(i - 1) : queries[j].query = "tags" /\ queries[j].ok
    /\ \A i \in 1..Len(queries) :
          ~queries[i].ok => /\ i = Len(queries)
                            /\ pc = "exit"
                            /\ splitLog = <<>> /\ log = <<>> /\ final = <<>>
    /\ pc = "exit" => \/ Len(queries) >= 1 /\ ~queries[Len(queries)].ok
                      \/ Len(queries) = 2 /\ log # <<>>

C11_FailureIsFatal ==
    /\ []NoRetryNoPartialResult
    /\ [][pc = "exit" => pc' = "exit"]_vars

\* the tag query returned a tag and the log query failed
C11_Witness ==
    /\ pc = "exit"
    /\ lastTag # NoTag
    /\ Len(queries) = 2 /\ queries[2].query = "log" /\ ~queries[2].ok

(***************************************************************************)
(* C12  Malformed-entry filter: an entry that has a title which does not   *)
(* match the title grammar raises no error and leaves no trace: whether    *)
(* the parser throws, the records, the committers and the returned text    *)
(* are those of the input without the malformed entries.                   *)
(***************************************************************************)
Malformed(piece) == HasTitle(piece) /\ ~match(Field(piece, 3)).ok
WithoutMalformed(pieces) == SelectSeq(pieces, LAMBDA piece : ~Malformed(piece))
Parsed == pc \in {"threw", "header", "sections", "footer", "done"}

SameAsParsed(r) ==
    /\ r.threw <=> pc = "threw"
    /\ ~r.threw => log = r.log /\ committers = r.committers
    /\ Done => final = Assemble(r)

C12_MalformedEntryDropped ==
    Parsed => /\ SameAsParsed(convertStringToLog(WithoutMalformed(splitLog)))
              /\ pc = "threw" =>
                    \E k \in 1..Len(splitLog) :
                        ~IsSkippedLine(splitLog[k]) /\ TitleUndefined(splitLog[k])

\* a malformed entry, whose committer no other entry names, next to an
\* entry that is rendered
C12_Witness ==
    /\ Done
    /\ ItemLines # {}
    /\ \E k \in 1..Len(splitLog) :
          /\ Malformed(splitLog[k])
          /\ Field(splitLog[k], 5) # <<>>
          /\ Field(splitLog[k], 5) \notin Range(committers)

(***************************************************************************)
(* C14  Bot-username exclusion, as claimed: username annotations that      *)
(* name dependabot, in any letter case, are not counted, so the thank-you  *)
(* header is emitted only when more than one other annotation was parsed   *)
(* or more than one committer was collected.                               *)
(***************************************************************************)
dependabot == <<"d","e","p","e","n","d","a","b","o","t">>
HeaderDecided == pc \in {"sections", "footer", "done"}

RECURSIVE NonBotAnnotations(_)
NonBotAnnotations(items) ==
    IF items = <<>> THEN 0
    ELSE Len(SelectSeq(Head(items).usernames, LAMBDA u : Handle(u) # dependabot))
         + NonBotAnnotations(Tail(items))

C14_BotUsernameExcluded ==
    HeaderDecided /\ HeaderPresent
        => NonBotAnnotations(log) > 1 \/ Len(committers) > 1

(***************************************************************************)
(* C15  Blank entries are skipped, as claimed: an entry that is empty      *)
(* after trimming produces no record and does not abort the build; the     *)
(* parser ends as it does on the input without the blank entries.          *)
(***************************************************************************)
BlankAfterTrim(piece) == Len(piece) = 1 /\ trim(piece[1]) = <<>>
WithoutBlank(pieces) == SelectSeq(pieces, LAMBDA piece : ~BlankAfterTrim(piece))

C15_BlankEntriesSkipped ==
    Parsed => SameAsParsed(convertStringToLog(WithoutBlank(splitLog)))

(***************************************************************************)
(* C16  No empty block: the heading of a user-facing section is in the     *)
(* output, once, exactly when some parsed record has that type and no      *)
(* marker; the footer heading, followed by its explanatory sentence, is in *)
(* the output, once, exactly when some parsed record is footer-eligible;   *)
(* the first line after the heading part of a block is a list line.        *)
(***************************************************************************)
SectionHeading(type) ==
    CASE type = feat -> "### Features"
      [] type = impr -> "### Improvements"
      [] type = fix  -> "### Bug Fixes"
HeadingsWith(text) == {h \in HeadingLines : final[h].text = text}
\* the lines from position h on are of the kinds given
KindsFrom(h, kinds) ==
    /\ Len(final) >= h + Len(kinds) - 1
    /\ \A k \in 1..Len(kinds) : final[h + k - 1].kind = kinds[k]

C16_NoEmptyBlock ==
    Done =>
        /\ \A type \in UserTypes :
              /\ Cardinality(HeadingsWith(SectionHeading(type))) =
                    IF \E item \in LogItems : item.type = type /\ ~HasMarker(item)
                    THEN 1 ELSE 0
              /\ \A h \in HeadingsWith(SectionHeading(type)) :
                    KindsFrom(h, <<"heading", "blank", "item">>)
        /\ Cardinality(HeadingsWith("### Nerd stuff")) =
              IF \E item \in LogItems : FooterEligible(item) THEN 1 ELSE 0
        /\ \A h \in HeadingsWith("### Nerd stuff") :
              /\ KindsFrom(h, <<"heading", "blank", "note", "blank", "item">>)
              /\ final[h + 2].text = footerNote
        /\ \A h \in HeadingLines : \E i \in ItemLines : HeadingOf(i) = h
        /\ \A i \in 1..Len(final) : final[i].kind = "note" => i - 2 \in HeadingLines

\* records of a user-facing type exist but all carry the marker, so that
\* section is absent, next to a section and a footer that are present
C16_Witness ==
    /\ Done
    /\ \E type \in UserTypes :
          /\ \E item \in LogItems : item.type = type
          /\ HeadingsWith(SectionHeading(type)) = {}
    /\ \E type \in UserTypes : HeadingsWith(SectionHeading(type)) # {}
    /\ HeadingsWith("### Nerd stuff") # {}

(***************************************************************************)
(* C17  Order within a block: two list lines of one user-facing section    *)
(* stand in the order of their entries in the input log; two list lines    *)
(* of the footer stand in the order of their type groups (feat, impr,      *)
(* fix, style, docs, refactor, perf, ci, test, build, chore) and, within   *)
(* one group, in the order of their entries in the input log.              *)
(***************************************************************************)
\* the position in the split log of the entry a record was parsed from
EntryIndex(item) ==
    CHOOSE k \in 1..Len(splitLog) :
        Len(convertStringToLog(SubSeq(splitLog, 1, k)).log) = item.id
            /\ Len(convertStringToLog(SubSeq(splitLog, 1, k - 1)).log) = item.id - 1

C17_OrderWithinBlock ==
    Done => \A i, j \in ItemLines :
                i < j /\ HeadingOf(i) = HeadingOf(j) =>
                    IF i \in SectionLines
                    THEN EntryIndex(ItemOf(i)) < EntryIndex(ItemOf(j))
                    ELSE \/ GroupRank(ItemOf(i).type) < GroupRank(ItemOf(j).type)
                         \/ /\ GroupRank(ItemOf(i).type) = GroupRank(ItemOf(j).type)
                            /\ EntryIndex(ItemOf(i)) < EntryIndex(ItemOf(j))

\* a user-facing section with two list lines
C17_Witness ==
    /\ Done
    /\ \E i, j \in SectionLines : i < j /\ HeadingOf(i) = HeadingOf(j)

\* a footer with two list lines of one type group
C17_FooterGroupReached ==
    /\ Done
    /\ \E i, j \in FooterLines : i < j /\ ItemOf(i).type = ItemOf(j).type

(***************************************************************************)
(* C18  Line rendering, as claimed: every list line is "- ", then          *)
(* "**scope:** " only if the record has a scope, then the message, then    *)
(* " (@u1, @u2)" only if it has usernames, then " (" PR links ")" only if  *)
(* it has PR tokens, each #N as [#N](https://github.com/o/r/pull/N), then  *)
(* " (" commit links ")" with one [short](.../commit/full) per hash pair;  *)
(* no record has more than one line.                                       *)
(***************************************************************************)
RECURSIVE CommaList(_)
CommaList(texts) ==
    IF texts = <<>> THEN ""
    ELSE IF Len(texts) = 1 THEN texts[1]
    ELSE texts[1] \o ", " \o CommaList(Tail(texts))

Repository == "https://github.com/" \o owner \o "/" \o repo
\* the link of a token #N
PullLink(pr) == "[" \o Str(pr) \o "](" \o Repository \o "/pull/" \o Str(Tail(pr)) \o ")"
CommitLinkOf(h) == "[" \o Str(h.short) \o "](" \o Repository \o "/commit/" \o Str(h.full) \o ")"

ScopePrefix(item) ==
    IF item.scope # <<>> THEN "**" \o Str(item.scope) \o ":** " ELSE ""
UsernameGroup(item) ==
    IF item.usernames # <<>>
    THEN " (" \o CommaList([k \in 1..Len(item.usernames) |-> Str(item.usernames[k])]) \o ")"
    ELSE ""
PrGroup(item) ==
    IF item.prs # <<>>
    THEN " (" \o CommaList([k \in 1..Len(item.prs) |-> PullLink(item.prs[k])]) \o ")"
    ELSE ""
HashGroup(item) ==
    " (" \o CommaList([k \in 1..Len(item.hashes) |-> CommitLinkOf(item.hashes[k])]) \o ")"
\* the list line of a record after its prefix
LineTail(item) ==
    Str(item.message) \o UsernameGroup(item) \o PrGroup(item) \o HashGroup(item)

LinesOf(item) == {i \in ItemLines : final[i].src = item.id}
OneLinePerRecord ==
    \A item \in LogItems :
        /\ Cardinality(LinesOf(item)) <= 1
        /\ LinesOf(item) = {} =>
              \/ item.type \notin KnownTypes
              \/ FooterEligible(item) /\ DroppedAsDuplicate(item)

C18_LineRenderingScopePrefix ==
    Done => /\ OneLinePerRecord
            /\ \A i \in ItemLines :
                  final[i].text = "- " \o ScopePrefix(ItemOf(i)) \o LineTail(ItemOf(i))

(***************************************************************************)
(* C18  Line rendering, amended: the list lines of the user-facing         *)
(* sections are as claimed; a list line of the footer has the prefix       *)
(* "**type(scope):** ", or "**type:** " without a scope, in the place of   *)
(* the scope prefix, and is otherwise built the same way.                  *)
(***************************************************************************)
C18_LineRendering ==
    Done => /\ OneLinePerRecord
            /\ \A i \in SectionLines :
                  final[i].text = "- " \o ScopePrefix(ItemOf(i)) \o LineTail(ItemOf(i))
            /\ \A i \in FooterLines :
                  final[i].text = "- " \o MergedPrefix(ItemOf(i)) \o LineTail(ItemOf(i))

\* a section line with two usernames and two PR links next to a footer line
C18_Witness ==
    /\ Done
    /\ \E i \in SectionLines :
          /\ Len(ItemOf(i).usernames) = 2 /\ Len(ItemOf(i).prs) = 2
          /\ final[i].text =
                "- m (@al, @bo) ([#1](https://github.com/o/r/pull/1), "
                    \o "[#2](https://github.com/o/r/pull/2)) "
                    \o "([a](https://github.com/o/r/commit/a1))"
    /\ FooterLines # {}

(***************************************************************************)
(* C19  Assembly layout: the returned text is the header and "\n\n" when   *)
(* the header condition holds, then the texts of the non-empty sections    *)
(* of feat, impr and fix joined by "\n" (each section ends with a line     *)
(* break, so one empty line stands between two sections), then "\n" and    *)
(* the footer block when the footer is not empty; nothing else.            *)
(***************************************************************************)
RECURSIVE JoinedBy(_, _)
JoinedBy(texts, sep) ==
    IF texts = <<>> THEN ""
    ELSE IF Len(texts) = 1 THEN texts[1]
    ELSE texts[1] \o sep \o JoinedBy(Tail(texts), sep)

SectionText(type) == FinalText(buildSection(type, log))
NonEmptySectionTexts ==
    SelectSeq(<<SectionText(feat), SectionText(impr), SectionText(fix)>>,
              LAMBDA text : text # "")
FooterText == FinalText(buildFooter(log))
HeaderCondition == contributorCount(log) > 1 \/ Len(committers) > 1

C19_AssemblyLayout ==
    Done => FinalText(final) =
                (IF HeaderCondition THEN header \o "\n\n" ELSE "")
                    \o JoinedBy(NonEmptySectionTexts, "\n")
                    \o (IF FooterText # "" THEN "\n" \o FooterText ELSE "")

\* the header and two sections
C19_Witness ==
    /\ Done
    /\ HeaderPresent
    /\ Len(NonEmptySectionTexts) = 2

\* the header, a section and the footer
C19_FooterReached ==
    /\ Done
    /\ HeaderPresent
    /\ Len(NonEmptySectionTexts) = 1
    /\ FooterText # ""

(***************************************************************************)
(* C20  Range resolution: once the tag query has returned, the range is    *)
(* "<tag>..HEAD" and the recorded previous tag is <tag>, the tag of the    *)
(* highest version among the lines the remote listed, when it listed a     *)
(* tag; the range is "--root" and no previous tag is recorded when it      *)
(* listed none.                                                            *)
(***************************************************************************)
TagQueryReturned == Len(queries) >= 1 /\ queries[1].ok
ListedTags ==
    {<<"v", d>> : d \in {d \in Digits :
        \E k \in 1..Len(remoteTags) :
            /\ Len(remoteTags[k]) >= 2
            /\ SubSeq(remoteTags[k], Len(remoteTags[k]) - 1, Len(remoteTags[k])) = <<"v", d>>}}
\* the version of a tag vN
VersionOf(tag) ==
    CHOOSE n \in 0..9 : <<"0","1","2","3","4","5","6","7","8","9">>[n + 1] = tag[2]
IsHighest(tag) ==
    tag \in ListedTags /\ \A other \in ListedTags : VersionOf(other) <= VersionOf(tag)

C20_RangeResolution ==
    TagQueryReturned =>
        IF ListedTags # {}
        THEN \E tag \in ListedTags :
                /\ IsHighest(tag)
                /\ lastTag = Str(tag)
                /\ range = Str(tag) \o "..HEAD"
        ELSE lastTag = NoTag /\ range = "--root"

\* the remote listed two tags and the higher one was recorded
C20_Witness ==
    /\ Done
    /\ Cardinality(ListedTags) = 2
    /\ lastTag = "v2" /\ range = "v2..HEAD"

(***************************************************************************)
(* C21  Committer set, as claimed: the committers list has no duplicates,  *)
(* holds no identity containing "github" in any letter case, and holds     *)
(* every other non-empty committer identity of the entries the parser      *)
(* scanned, those with a non-matching title included.                      *)
(***************************************************************************)
ParsedOK == pc \in {"header", "sections", "footer", "done"}
CommitterOf(piece) == Field(piece, 5)
IsBotIdentity(name) == includes(toLowerCase(name), github)
NoDuplicateNoBot ==
    /\ \A i, j \in 1..Len(committers) : committers[i] = committers[j] => i = j
    /\ \A i \in 1..Len(committers) :
          committers[i] # <<>> /\ ~IsBotIdentity(committers[i])
\* the committers of the entries that satisfy Counts are all collected
CollectsFrom(Counts(_)) ==
    \A k \in 1..Len(splitLog) :
        /\ Counts(splitLog[k])
        /\ CommitterOf(splitLog[k]) # <<>>
        /\ ~IsBotIdentity(CommitterOf(splitLog[k]))
        => CommitterOf(splitLog[k]) \in Range(committers)

C21_CommitterSetOfScanned ==
    ParsedOK => NoDuplicateNoBot /\ CollectsFrom(HasTitle)

(***************************************************************************)
(* C21  Committer set, amended: the list has no duplicates and no          *)
(* identity containing "github" in any letter case; it holds every other   *)
(* non-empty committer identity of the entries whose title matches the     *)
(* grammar, and nothing else.                                              *)
(***************************************************************************)
C21_CommitterSet ==
    ParsedOK =>
        /\ NoDuplicateNoBot
        /\ CollectsFrom(Matches)
        /\ \A i \in 1..Len(committers) :
              \E k \in 1..Len(splitLog) :
                  Matches(splitLog[k]) /\ CommitterOf(splitLog[k]) = committers[i]

\* a matching entry committed by a "GitHub" identity next to a matching
\* entry whose committer is collected
C21_Witness ==
    /\ Done
    /\ Len(committers) = 1
    /\ \E k \in 1..Len(splitLog) :
          Matches(splitLog[k]) /\ IsBotIdentity(CommitterOf(splitLog[k]))
                               /\ CommitterOf(splitLog[k]) # github

(***************************************************************************)
(* C22  Record invariant: every record of the parser has at least one      *)
(* hash pair, a non-empty type and a non-empty message; the records are,   *)
(* in order, one for each entry whose title matches, with the hashes and   *)
(* the body of that entry, so no entry yields more than one record.        *)
(***************************************************************************)
MatchingEntries == {k \in 1..Len(splitLog) : Matches(splitLog[k])}
\* the position in the split log of the n-th matching entry
NthMatching(n) ==
    CHOOSE k \in MatchingEntries :
        Cardinality({j \in MatchingEntries : j <= k}) = n

C22_RecordInvariant ==
    ParsedOK =>
        /\ \A n \in 1..Len(log) :
              /\ Len(log[n].hashes) >= 1
              /\ log[n].type # <<>>
              /\ log[n].message # <<>>
              /\ log[n].id = n
        /\ Len(log) = Cardinality(MatchingEntries)
        /\ \A n \in 1..Len(log) :
              /\ log[n].hashes =
                    <<[short |-> Field(splitLog[NthMatching(n)], 2),
                       full  |-> Field(splitLog[NthMatching(n)], 1)]>>
              /\ log[n].body = Field(splitLog[NthMatching(n)], 4)

\* two records next to entries that yield none
C22_Witness ==
    /\ Done
    /\ Len(log) = 2
    /\ Len(splitLog) > 2
    /\ \E n \in 1..Len(log) : log[n].scope # <<>>

(***************************************************************************)
(* C28  No header-only output, as claimed: an output with the thank-you    *)
(* header has at least one list line; the output is empty or has a list    *)
(* line.                                                                   *)
(***************************************************************************)
C28_NoHeaderOnlyOutput ==
    Done => /\ HeaderPresent => ItemLines # {}
            /\ final = <<>> \/ ItemLines # {}

\* the same, for the inputs all of whose records have a recognized type
C28_HoldsForKnownTypes ==
    Done /\ (\A item \in LogItems : item.type \in KnownTypes)
        => /\ HeaderPresent => ItemLines # {}
           /\ final = <<>> \/ ItemLines # {}

(***************************************************************************)
(* C29  Classification is a partition: a record of a recognized type is    *)
(* selected by exactly one filter, once: by the section filter of its own  *)
(* type when the type is feat, impr or fix and the body has no marker, by  *)
(* the footer's list otherwise.  No record has a list line both in a       *)
(* user-facing section and in the footer, and a list line of a section     *)
(* stands under the heading of its record's type.                          *)
(***************************************************************************)
Occurrences(items, item) == Cardinality({n \in 1..Len(items) : items[n].id = item.id})
UserFacing(item) == item.type \in UserTypes /\ ~HasMarker(item)

C29_ClassificationPartition ==
    Done => \A item \in LogItems :
        item.type \in KnownTypes =>
            /\ \A type \in UserTypes :
                  Occurrences(SectionItems(type, log), item) =
                      IF UserFacing(item) /\ item.type = type THEN 1 ELSE 0
            /\ Occurrences(allOtherLogs(log), item) = IF UserFacing(item) THEN 0 ELSE 1
            /\ ~(InSomeSection(item) /\ InFooter(item))
            /\ InSomeSection(item) <=> UserFacing(item)
            /\ InFooter(item) => ~UserFacing(item)
            /\ \A i \in SectionLines :
                  final[i].src = item.id =>
                      final[HeadingOf(i)].text = SectionHeading(item.type)

\* two records of one user-facing type, one with the marker and in the
\* footer, one without and in the section
C29_Witness ==
    /\ Done
    /\ \E a, b \in LogItems :
          /\ a.type = b.type /\ a.type \in UserTypes
          /\ HasMarker(a) /\ InFooter(a)
          /\ ~HasMarker(b) /\ InSomeSection(b)

(***************************************************************************)
(* C30  User-facing sections are not deduplicated: the section of a type   *)
(* has as many list lines as there are records of that type without the    *)
(* marker, also when two of them have the same full hash; the footer has   *)
(* one list line for each full hash of its records.                        *)
(***************************************************************************)
LinesUnder(text) ==
    {i \in ItemLines : HeadingOf(i) > 0 /\ final[HeadingOf(i)].text = text}

C30_SectionsNotDeduplicated ==
    Done => /\ \A type \in UserTypes :
                  Cardinality(LinesUnder(SectionHeading(type))) =
                      Cardinality({item \in LogItems :
                                      item.type = type /\ ~HasMarker(item)})
            /\ Cardinality(LinesUnder("### Nerd stuff")) =
                  Cardinality({FullHash(item) : item \in {x \in LogItems : FooterEligible(x)}})

\* a section with two list lines of the same full hash
C30_Witness ==
    /\ Done
    /\ \E i, j \in SectionLines :
          /\ i # j /\ HeadingOf(i) = HeadingOf(j)
          /\ FullHash(ItemOf(i)) = FullHash(ItemOf(j))

(***************************************************************************)
(* C23  Resolved-tag state: once the tag query of the most recent call has *)
(* returned, the previous tag read by updateChangelog is the tag that      *)
(* call resolved: the header written is the compare link when the remote   *)
(* listed a tag and the plain "## <version>" when it listed none, whatever *)
(* an earlier call in the same process resolved.                           *)
(***************************************************************************)
HeaderWritten(cur, new) == versionHeader(lastTag, cur, new)
TagReadIsTagResolved ==
    IF ListedTags # {}
    THEN /\ \E tag \in ListedTags : IsHighest(tag) /\ lastTag = Str(tag)
         /\ HeaderWritten("26.6.1", "26.6.2") = CompareHeader("26.6.1", "26.6.2")
    ELSE /\ lastTag = NoTag
         /\ HeaderWritten("26.6.1", "26.6.2") = "## 26.6.2"

C23_ResolvedTagState == TagQueryReturned => TagReadIsTagResolved

(***************************************************************************)
(* C24  Release publishing retry: the create-release API is called at most *)
(* 5 times; a call follows another only when that one failed with code     *)
(* ECONNABORTED or status 500, 502, 503 or 504 and was not the 5th; a      *)
(* success is the last call and ends the procedure; any other error, and   *)
(* a failure of the 5th call, is a failure exit; and the procedure always  *)
(* ends.                                                                   *)
(***************************************************************************)
NetworkClass(answer) ==
    /\ ~answer.ok
    /\ answer.code = "ECONNABORTED" \/ answer.status \in {500, 502, 503, 504}
Publishing == step = "createGithubRelease"
PublishingEnded == step \in {"finished", "exited"}
LastCall == apiCalls[Len(apiCalls)]
RetryDiscipline ==
    /\ Len(apiCalls) <= 5
    /\ \A k \in 2..Len(apiCalls) : NetworkClass(apiCalls[k - 1]) /\ k - 1 < 5
    /\ \A k \in 1..Len(apiCalls) : apiCalls[k].ok => k = Len(apiCalls)
    /\ apiCalls # <<>> =>
          /\ LastCall.ok => step = "finished"
          /\ ~LastCall.ok /\ (~NetworkClass(LastCall) \/ Len(apiCalls) = 5)
                => step = "exited"
          /\ NetworkClass(LastCall) /\ Len(apiCalls) < 5 => Publishing
    /\ step = "finished" => apiCalls # <<>> /\ LastCall.ok

C24_PublishingRetry == [] RetryDiscipline /\ (Publishing ~> PublishingEnded)

\* five calls failed with network-class errors and the process exited
C24_Witness ==
    /\ step = "exited"
    /\ Len(apiCalls) = 5
    /\ \A k \in 1..5 : NetworkClass(apiCalls[k])
    /\ apiCalls[1].code = "ECONNABORTED" /\ apiCalls[5].status = 504

(***************************************************************************)
(* C25  No mutation before consent: before the five checks and both        *)
(* prompts have passed, no mutating step is recorded, and package.json,    *)
(* CHANGELOG.md, the remote and the releases are as at the start, whether  *)
(* the run has ended or not; so is the git history: the run has made no    *)
(* commit and no tag, the clone holding nothing but the tags of origin     *)
(* that the `git fetch origin` of checkBranchSync brings; files, commits,  *)
(* tags, remote and releases change only in a run that has them all.       *)
(***************************************************************************)
World == <<packageJson, changelogMd, formatted, gitLocal, pushed, released>>
ConsentSteps ==
    {"validateEnv", "validateToken", "findOriginDefaultBranch", "checkBranchSync",
     "checkUncommittedChanges", "promptChangelog", "promptRelease"}
MutatingSteps ==
    <<"updatePackage", "updateChangelog", "createCommitAndTag", "createGithubRelease">>
Consented == ConsentSteps \subseteq Range(trail)
FilesAndRemoteUntouched ==
    /\ \E f \in ReleaseFiles : packageJson = f.pkg /\ changelogMd = f.md
    /\ currentVer # NoVersion => packageJson = currentVer
    /\ formatted = {}
    /\ pushed = {}
    /\ released = {}
NoMutationRecorded == \A k \in 1..4 : MutatingSteps[k] \notin Range(trail)
HistoryUntouched == \A k \in 1..Len(gitLocal) : gitLocal[k] \in Range(OriginTags)
FetchOnly ==
    /\ step = "checkBranchSync"
    /\ <<packageJson, changelogMd, formatted, pushed, released>>'
          = <<packageJson, changelogMd, formatted, pushed, released>>
    /\ Len(gitLocal') > Len(gitLocal)
    /\ SubSeq(gitLocal', 1, Len(gitLocal)) = gitLocal
    /\ \A k \in (Len(gitLocal) + 1)..Len(gitLocal') : gitLocal'[k] \in Range(OriginTags)

C25_NoMutationBeforeConsent ==
    /\ [](~Consented => FilesAndRemoteUntouched /\ HistoryUntouched /\ NoMutationRecorded)
    /\ [][World' # World => Consented \/ FetchOnly]_vars

\* package.json was rewritten in a run that passed every check and prompt
C25_Witness ==
    /\ Consented
    /\ step = "updateChangelog"
    /\ packageJson = newVer /\ packageJson # currentVer

\* a declined second prompt ended the run with nothing changed
C25_DeclinedReached ==
    /\ step = "exited"
    /\ Len(trail) = 9 /\ trail[9] = "incrementVersion"
    /\ FilesAndRemoteUntouched /\ HistoryUntouched

\* checkBranchSync fetched a tag of origin and exited: the branch differs
C25_FetchedReached ==
    /\ step = "exited"
    /\ Len(trail) = 3
    /\ gitLocal = <<[kind |-> "tag", text |-> "v1"]>>

(***************************************************************************)
(* C26  Publishing order: the mutating steps that succeeded are, in order, *)
(* a prefix of package.json update, CHANGELOG.md update, commit + tag +    *)
(* push, release creation; a step changes what it writes, and the API is   *)
(* called, only after every earlier step succeeded; and a release exists   *)
(* only for the version whose commit and tag this run pushed.  The tags of *)
(* origin that the fetch of checkBranchSync adds to the clone are no step  *)
(* of the publishing.                                                      *)
(***************************************************************************)
MadeByRun == SelectSeq(gitLocal, LAMBDA ref : ref \notin Range(OriginTags))
IsMutatingStep(name) == \E k \in 1..4 : MutatingSteps[k] = name
MutationsDone == SelectSeq(trail, IsMutatingStep)
DoneBefore(k) == \A j \in 1..(k - 1) : MutatingSteps[j] \in Range(trail)
InPublishingOrder ==
    /\ Len(MutationsDone) <= 4
    /\ MutationsDone = SubSeq(MutatingSteps, 1, Len(MutationsDone))
ReleasedOnlyPushed ==
    /\ \A name \in released : [kind |-> "tag", text |-> name] \in pushed
    /\ released # {} =>
          /\ released = {TagName(newVer)}
          /\ "createCommitAndTag" \in Range(trail)
          /\ Tag(newVer) \in Range(gitLocal) /\ Commit(newVer) \in Range(gitLocal)
          /\ Tag(newVer) \in pushed /\ Commit(newVer) \in pushed
EachAfterTheEarlier ==
    /\ packageJson' # packageJson => DoneBefore(1) /\ MutationsDone = <<>>
    /\ changelogMd' # changelogMd => DoneBefore(2) /\ Len(MutationsDone) = 1
    /\ formatted' # formatted \/ (gitLocal' # gitLocal /\ ~FetchOnly)
          \/ pushed' # pushed =>
          DoneBefore(3) /\ Len(MutationsDone) = 2
    /\ apiCalls' # apiCalls \/ released' # released =>
          DoneBefore(4) /\ Len(MutationsDone) = 3
\* the push sent the tag and failed on the branch: exit, and no API call
C26_PushFailedReached ==
    /\ step = "exited"
    /\ newVer # NoVersion
    /\ MadeByRun = <<Commit(newVer), Tag(newVer)>> /\ pushed = {Tag(newVer)}
    /\ apiCalls = <<>> /\ released = {}

\* the write of CHANGELOG.md failed after the header and the start of the
\* changelog: exit, with the text the file held gone, and nothing committed
C26_CutChangelogReached ==
    /\ step = "exited"
    /\ changelogMd = "## 26.6.2\n\nThank you to all the contributors who made this r"
    /\ MutationsDone = <<"updatePackage">>
    /\ MadeByRun = <<>> /\ pushed = {} /\ apiCalls = <<>>

(***************************************************************************)
(* C27  Version bump, as claimed: for a current version YY.WW.N and a      *)
(* clock whose two-digit year is yy and whose week number is week,         *)
(* incrementVersion returns yy.week.(N+1) when yy is YY and week is WW,    *)
(* and yy.week.0 in every other case.                                      *)
(***************************************************************************)
Incremented == step = "promptRelease"
SameYearAndWeek == YearOf(now) = currentVer[1] /\ WeekOf(now) = NumberOf(currentVer[2])
BumpedOrReset ==
    /\ newVer[1] = YearOf(now)
    /\ NumberOf(newVer[2]) = WeekOf(now)
    /\ NumberOf(newVer[3]) = IF SameYearAndWeek THEN NumberOf(currentVer[3]) + 1 ELSE 0

C27_VersionBump == Incremented => BumpedOrReset

\* the same when the two-digit year of the clock has no leading zero
C27_HoldsFromYearTen == Incremented /\ now.year = 2026 => BumpedOrReset

\* a bump within the week, and a reset in a later week
C27_BumpReached ==
    /\ Incremented
    /\ VersionText(currentVer) = "26.6.3" /\ VersionText(newVer) = "26.6.4"
C27_ResetReached ==
    /\ Incremented
    /\ VersionText(currentVer) = "26.6.3" /\ VersionText(newVer) = "26.53.0"

====
